---------------------------- MODULE Spec2Model ----------------------------
(***************************************************************************)
(* A model of the Avatica RPC client of python-phoenixdb                   *)
(* (src/phoenixdb/avatica.py): the HTTP transport with its retry loop      *)
(* (_post_request), the envelope handling of _apply, and the error         *)
(* classifier (JettyErrorPageParser, parse_error_page,                     *)
(* parse_error_protobuf, parse_and_raise_sql_error, raise_sql_error).      *)
(*                                                                         *)
(* Text is modelled at the granularity of space separated words: a message *)
(* is a sequence of tokens, and the only structure kept inside a token is  *)
(* what the code inspects (the digits of an error code, the characters of  *)
(* a parenthesised SQLSTATE).  Time is in microseconds.                    *)
(***************************************************************************)
EXTENDS Integers, Sequences, FiniteSets, TLC

(***************************************************************************)
(* Bounds of the model.                                                    *)
(***************************************************************************)
\* max_retries arguments passed to AvaticaClient(...) range over 0..MaxRetriesArg
MaxRetriesArg == 2
\* number of _apply calls in one behaviour
MaxRequests == 2
\* number of explicit client.connect() calls in one behaviour
MaxConnects == 1
\* result sets have 0..MaxRows rows
MaxRows == 10
\* statement ids the server hands out range over 1..MaxStatementId
MaxStatementId == 2
\* executemany is called with 0..MaxParameterSets parameter sets
MaxParameterSets == 2

VARIABLES
    url,           \* AvaticaClient.url: what parse_url made of the url argument
    max_retries,   \* AvaticaClient.max_retries
    connection,    \* AvaticaClient.connection: NoConnection or the number of the HTTPConnection object
    handles,       \* how many HTTPConnection objects have been constructed so far
    pc,            \* "new" (AvaticaClient not constructed yet), "idle" (no call in progress), "post" (top of the loop of _post_request), "read" (_apply holds the response)
    request,       \* the arguments of the _apply call in progress (or of the last one)
    retry_count,   \* the local retry_count of _post_request
    response,      \* the response _post_request returned to _apply
    trace,         \* the calls made on httplib and time during the current (or last) _apply call, in order
    result,        \* how the last _apply call ended: nothing yet, a returned payload, a raised exception
    nrequests      \* how many _apply calls were started

VARIABLES
    conn,          \* the Connection object: _closed, _autocommit, _readonly, _transactionisolation
    registry,      \* Connection._cursors: the weak references to the cursors, in creation order
    cursors,       \* the Cursor objects, by number: their attributes, and whether the object exists
    session,       \* the server's properties of the connection (what connectionSync answers)
    hist,          \* per cursor: the size of the result set of its last execute, the update count the server
                   \* answered it with, the parameters it was given, and the rows handed to the caller since
    last           \* the last operation called on the Connection or on a Cursor: its RPCs, and how it ended

dbvars == <<conn, registry, cursors, session, hist, last>>

vars == <<url, max_retries, connection, handles, pc, request, retry_count, response, trace, result, nrequests, dbvars>>

(***************************************************************************)
(* Tokens of text.                                                         *)
(***************************************************************************)
Word(s) == [t |-> "word", s |-> s]
ErrorKw == [t |-> "ERROR"]
Digits(ds) == [t |-> "digits", ds |-> ds]
Paren(cs) == [t |-> "paren", cs |-> cs]
Arrow == [t |-> "->"]
Newline == [t |-> "nl"]
Blank == [t |-> "ws"]
Text(s) == <<Word(s)>>


(***************************************************************************)
(* Exceptions (src/phoenixdb/errors.py).  An exception object is its class *)
(* and its positional arguments: message, then code, then sqlstate; cause  *)
(* names the exception object that was passed as an argument (if any).     *)
(* NoExc stands for "the function returned without raising".               *)
(***************************************************************************)
NoExc == [kind |-> "", nargs |-> 0, message |-> <<>>, code |-> 0, sqlstate |-> <<>>, cause |-> ""]

\* error_class(message, code, sqlstate), error_class(message), InterfaceError(message, status), ...:
\* the classes of errors.py define no __init__, so any positional arguments are accepted and kept.
ErrorArgs(kind, nargs, message, code, sqlstate, cause) ==
    [kind |-> kind, nargs |-> nargs, message |-> message, code |-> code, sqlstate |-> sqlstate, cause |-> cause]

\* errors.InterfaceError('RPC request failed', cause=e): the classes of errors.py inherit
\* StandardError's constructor, which takes no keyword arguments, so the construction
\* itself raises TypeError and no InterfaceError object ever exists.
ErrorKwargs(kind, message, cause) ==
    [kind |-> "TypeError", nargs |-> 1, message |-> Text("does not take keyword arguments"),
     code |-> 0, sqlstate |-> <<>>, cause |-> ""]

\* The subclasses of errors.DatabaseError (and the class itself).
DatabaseErrorKinds ==
    {"DatabaseError", "DataError", "OperationalError", "IntegrityError",
     "InternalError", "ProgrammingError", "NotSupportedError"}

IsDatabaseError(e) == e.kind \in DatabaseErrorKinds

(***************************************************************************)
(* SQLSTATE classification.  A state is a sequence of characters.          *)
(***************************************************************************)
\* prefix.startswith: str.startswith(prefix)
StartsWith(str, prefix) ==
    /\ Len(str) >= Len(prefix)
    /\ SubSeq(str, 1, Len(prefix)) = prefix

\* the table with the parent class 22 listed before its special case 22018
SQLSTATE_ERROR_CLASSES_ParentFirst ==
    << [prefix |-> <<"0", "8">>,                cls |-> "OperationalError"],
       [prefix |-> <<"2", "2">>,                cls |-> "DataError"],
       [prefix |-> <<"2", "2", "0", "1", "8">>, cls |-> "IntegrityError"],
       [prefix |-> <<"2", "3">>,                cls |-> "IntegrityError"],
       [prefix |-> <<"2", "4">>,                cls |-> "InternalError"],
       [prefix |-> <<"2", "5">>,                cls |-> "InternalError"],
       [prefix |-> <<"4", "2">>,                cls |-> "ProgrammingError"],
       [prefix |-> <<"X", "L", "C">>,           cls |-> "OperationalError"],
       [prefix |-> <<"I", "N", "T">>,           cls |-> "InternalError"] >>

SQLSTATE_ERROR_CLASSES ==
    << [prefix |-> <<"0", "8">>,                cls |-> "OperationalError"],
       [prefix |-> <<"2", "2", "0", "1", "8">>, cls |-> "IntegrityError"],
       [prefix |-> <<"2", "2">>,                cls |-> "DataError"],
       [prefix |-> <<"2", "3">>,                cls |-> "IntegrityError"],
       [prefix |-> <<"2", "4">>,                cls |-> "InternalError"],
       [prefix |-> <<"2", "5">>,                cls |-> "InternalError"],
       [prefix |-> <<"4", "2">>,                cls |-> "ProgrammingError"],
       [prefix |-> <<"X", "L", "C">>,           cls |-> "OperationalError"],
       [prefix |-> <<"I", "N", "T">>,           cls |-> "InternalError"] >>

\* The for loop of raise_sql_error from entry i on: the first entry whose prefix
\* starts the state raises; running off the end of the table returns None.
RECURSIVE RaiseSqlErrorFrom(_, _, _, _)
RaiseSqlErrorFrom(i, code, sqlstate, message) ==
    IF i > Len(SQLSTATE_ERROR_CLASSES) THEN NoExc
    ELSE IF StartsWith(sqlstate, SQLSTATE_ERROR_CLASSES[i].prefix)
         THEN ErrorArgs(SQLSTATE_ERROR_CLASSES[i].cls, 3, message, code, sqlstate, "")
         ELSE RaiseSqlErrorFrom(i + 1, code, sqlstate, message)

raise_sql_error(code, sqlstate, message) == RaiseSqlErrorFrom(1, code, sqlstate, message)

(***************************************************************************)
(* parse_and_raise_sql_error: the regular expression                       *)
(*   (?:([^ ]+): )?ERROR (\d+) \(([0-9A-Z]{5})\): (.*?) ->                 *)
(* over a message of words.  The optional first group only moves the start *)
(* of the match to the word before ERROR and its capture is dropped by the *)
(* code, so a match is decided by the words from ERROR on: the word ERROR, *)
(* a word of digits, a word "(sssss):" of five characters of [0-9A-Z], a   *)
(* non-empty text without a line break (. does not match one), and the     *)
(* first word "->" after it (.*? is lazy).                                 *)
(***************************************************************************)
StateChars ==
    {"0", "1", "2", "3", "4", "5", "6", "7", "8", "9",
     "A", "B", "C", "D", "E", "F", "G", "H", "I", "J", "K", "L", "M",
     "N", "O", "P", "Q", "R", "S", "T", "U", "V", "W", "X", "Y", "Z"}

\* int(code) of a word of decimal digits
RECURSIVE ParseInt(_)
ParseInt(ds) ==
    IF ds = <<>> THEN 0
    ELSE ParseInt(SubSeq(ds, 1, Len(ds) - 1)) * 10 + ds[Len(ds)]

\* the positions of "->" that can end a match whose ERROR is at position i
ArrowsAfter(m, i) == {k \in (i + 4)..Len(m) : m[k].t = "->"}

FirstArrow(m, i) == CHOOSE k \in ArrowsAfter(m, i) : \A j \in ArrowsAfter(m, i) : k <= j

MatchAt(m, i) ==
    /\ m[i].t = "ERROR"
    /\ i + 2 <= Len(m)
    /\ m[i + 1].t = "digits"
    /\ Len(m[i + 1].ds) >= 1
    /\ m[i + 2].t = "paren"
    /\ Len(m[i + 2].cs) = 5
    /\ \A j \in 1..5 : m[i + 2].cs[j] \in StateChars
    /\ ArrowsAfter(m, i) # {}
    /\ \A j \in (i + 3)..(FirstArrow(m, i) - 1) : m[j].t # "nl"

Matches(m) == {i \in 1..Len(m) : MatchAt(m, i)}

\* match[0] of re.findall: the leftmost match
FirstMatch(m) == CHOOSE i \in Matches(m) : \A j \in Matches(m) : i <= j

parse_and_raise_sql_error(message) ==
    IF Matches(message) = {} THEN NoExc
    ELSE LET i == FirstMatch(message)
         IN  raise_sql_error(ParseInt(message[i + 1].ds),
                             message[i + 2].cs,
                             SubSeq(message, i + 3, FirstArrow(message, i) - 1))

(***************************************************************************)
(* JettyErrorPageParser.  A page is the sequence of events HTMLParser.feed *)
(* produces: start tags, end tags and character data (a sequence of text   *)
(* tokens).                                                                *)
(***************************************************************************)
StartTag(tag) == [h |-> "start", tag |-> tag, data |-> <<>>]
EndTag(tag) == [h |-> "end", tag |-> tag, data |-> <<>>]
Data(d) == [h |-> "data", tag |-> "", data |-> d]

IsSpace(tok) == tok.t \in {"ws", "nl"}

\* str.strip(): leading and trailing whitespace removed
RECURSIVE Strip(_)
Strip(d) ==
    IF d = <<>> THEN d
    ELSE IF IsSpace(d[1]) THEN Strip(Tail(d))
    ELSE IF IsSpace(d[Len(d)]) THEN Strip(SubSeq(d, 1, Len(d) - 1))
    ELSE d

\* ' '.join(chunks)
RECURSIVE Join(_)
Join(chunks) == IF chunks = <<>> THEN <<>> ELSE Head(chunks) \o Join(Tail(chunks))

\* JettyErrorPageParser.__init__; failed records list.pop() on an empty path (IndexError)
NewParser == [path |-> <<>>, title |-> <<>>, message |-> <<>>, failed |-> FALSE]

handle_starttag(p, tag) == [p EXCEPT !.path = Append(p.path, tag)]

handle_endtag(p, tag) ==
    IF p.path = <<>> THEN [p EXCEPT !.failed = TRUE]
    ELSE [p EXCEPT !.path = SubSeq(p.path, 1, Len(p.path) - 1)]

\* handle_data looking for the message in html>body>pre, one level too high
handle_data_NoParagraph(p, data) ==
    IF Len(p.path) > 2 /\ p.path[1] = "html" /\ p.path[2] = "body"
    THEN IF Len(p.path) = 3 /\ p.path[3] = "h2"
         THEN [p EXCEPT !.title = Append(p.title, Strip(data))]
         ELSE IF Len(p.path) = 3 /\ p.path[3] = "pre"
              THEN [p EXCEPT !.message = Append(p.message, Strip(data))]
              ELSE p
    ELSE p

handle_data(p, data) ==
    IF Len(p.path) > 2 /\ p.path[1] = "html" /\ p.path[2] = "body"
    THEN IF Len(p.path) = 3 /\ p.path[3] = "h2"
         THEN [p EXCEPT !.title = Append(p.title, Strip(data))]
         ELSE IF Len(p.path) = 4 /\ p.path[3] = "p" /\ p.path[4] = "pre"
              THEN [p EXCEPT !.message = Append(p.message, Strip(data))]
              ELSE p
    ELSE p

ParserStep(p, ev) ==
    IF ev.h = "start" THEN handle_starttag(p, ev.tag)
    ELSE IF ev.h = "end" THEN handle_endtag(p, ev.tag)
    ELSE handle_data(p, ev.data)

\* parser.feed(html): the events in order, stopping at the exception of a handler
RECURSIVE Feed(_, _)
Feed(p, events) ==
    IF events = <<>> \/ p.failed THEN p
    ELSE Feed(ParserStep(p, Head(events)), Tail(events))

JettyTitle == <<Word("HTTP"), Word("ERROR:"), Word("500")>>

InternalError(message) == ErrorArgs("InternalError", 1, message, 0, <<>>, "")

\* parse_error_page(html): the exception raised, NoExc when it returns
parse_error_page(events) ==
    LET parser == Feed(NewParser, events)
    IN  IF parser.failed
        THEN ErrorArgs("IndexError", 1, Text("pop from empty list"), 0, <<>>, "")
        ELSE IF parser.title = <<JettyTitle>>
             THEN LET message == Strip(Join(parser.message))
                      sqlerr == parse_and_raise_sql_error(message)
                  IN  IF sqlerr # NoExc THEN sqlerr ELSE InternalError(message)
             ELSE NoExc

(***************************************************************************)
(* Response bodies.  A body is a serialized WireMessage (its name and the  *)
(* wrapped message), an HTML page, or bytes that are neither.  A wrapped   *)
(* message is the response class it was serialized from and the three      *)
(* fields responses_pb2.ErrorResponse reads back from it: parsing is       *)
(* lenient, fields that are not there are read as 0 and ''.                *)
(***************************************************************************)
\* the class name of a request or response message, e.g. CreateStatement + Request
Name(base, suffix) == [base |-> base, suffix |-> suffix]
NoName == Name("", "")

Payload(type, code, state, message) ==
    [type |-> type, error_code |-> code, sql_state |-> state, error_message |-> message]

WireBody(name, payload) ==
    [fmt |-> "wire", name |-> name, payload |-> payload, marker |-> FALSE, events |-> <<>>]

\* marker: the text of the page holds the literal '<html>'
HtmlBody(marker, events) ==
    [fmt |-> "html", name |-> NoName, payload |-> Payload(NoName, 0, <<>>, <<>>), marker |-> marker, events |-> events]

GarbageBody ==
    [fmt |-> "garbage", name |-> NoName, payload |-> Payload(NoName, 0, <<>>, <<>>), marker |-> FALSE, events |-> <<>>]

DecodeError == ErrorArgs("DecodeError", 1, Text("Error parsing message"), 0, <<>>, "")

\* parse_error_protobuf(text): the exception raised (it never returns)
parse_error_protobuf(body) ==
    IF body.fmt # "wire" THEN DecodeError
    ELSE LET err == body.payload
             sqlerr == parse_and_raise_sql_error(err.error_message)
             fielderr == raise_sql_error(err.error_code, err.sql_state, err.error_message)
         IN  IF sqlerr # NoExc THEN sqlerr
             ELSE IF fielderr # NoExc THEN fielderr
             ELSE InternalError(err.error_message)

(***************************************************************************)
(* What the server can answer.                                             *)
(***************************************************************************)
SqlStates ==
    { <<"0", "8", "0", "0", "1">>, <<"2", "2", "0", "1", "8">>, <<"2", "2", "0", "0", "0">>,
      <<"2", "3", "0", "0", "0">>, <<"2", "4", "0", "0", "0">>, <<"2", "5", "0", "0", "0">>,
      <<"4", "2", "0", "0", "0">>, <<"4", "2", "P", "0", "0">>, <<"X", "L", "C", "0", "1">>,
      <<"I", "N", "T", "0", "1">>, <<"9", "9", "9", "9", "9">>, <<"X", "2", "2", "0", "1">> }

PlainMessage == <<Word("Remote"), Word("driver"), Word("error")>>

EmbeddedMessage(digits, state) ==
    <<Word("RuntimeException:"), Word("PhoenixException:"), ErrorKw, Digits(digits), Paren(state),
      Word("table"), Word("not"), Word("found"), Arrow, Word("at"), Newline, Word("Caused")>>

TableNotFound == <<Word("table"), Word("not"), Word("found")>>

Code1205 == <<1, 2, 0, 5>>

\* the error page Jetty sends: the title in html>body>h2, the message in html>body>p>pre
Page(title, pre) ==
    << StartTag("html"), StartTag("head"), StartTag("title"), Data(Text("Error")),
       EndTag("title"), EndTag("head"), Data(<<Newline>>), StartTag("body"), Data(<<Newline>>),
       StartTag("h2"), Data(title), EndTag("h2"), Data(<<Newline>>),
       StartTag("p"), Data(<<Word("Problem"), Word("accessing"), Newline>>),
       StartTag("pre"), Data(<<Blank, Blank>> \o pre), EndTag("pre"), EndTag("p"),
       StartTag("hr"), EndTag("hr"), EndTag("body"), EndTag("html") >>

OtherTitle == <<Word("HTTP"), Word("ERROR:"), Word("503")>>

ErrorResponseName == Name("Error", "Response")

ErrorEnvelope(code, state, message) ==
    WireBody(ErrorResponseName, Payload(ErrorResponseName, code, state, message))

\* an error message whose pattern is cut off, broken by a line break, or has a lower case state
BrokenMessages ==
    { <<ErrorKw, Digits(Code1205), Paren(<<"4", "2", "P", "0", "0">>), Word("table"), Word("gone")>>,
      <<ErrorKw, Digits(Code1205), Paren(<<"4", "2", "P", "0", "0">>), Word("table"), Newline, Word("gone"), Arrow>>,
      <<ErrorKw, Digits(Code1205), Paren(<<"4", "2", "p", "0", "0">>), Word("table"), Word("gone"), Arrow>>,
      <<ErrorKw, Digits(Code1205), Paren(<<"4", "2", "P", "0", "0">>), Arrow>> }

State42P00 == <<"4", "2", "P", "0", "0">>

\* pages with the Jetty title whose message embeds an error of each state
EmbeddedPages == {HtmlBody(TRUE, Page(JettyTitle, EmbeddedMessage(Code1205, st))) : st \in SqlStates}

\* pages with the Jetty title (once padded with white space) and no complete error pattern
PlainPages ==
    {HtmlBody(TRUE, Page(JettyTitle, m)) : m \in BrokenMessages \cup {PlainMessage}}
    \cup {HtmlBody(TRUE, Page(<<Blank>> \o JettyTitle \o <<Newline>>, PlainMessage))}

\* pages whose html>body>h2 is not the Jetty title: another title, or the title and the
\* message at other places of the tree
OtherPages ==
    {HtmlBody(TRUE, Page(OtherTitle, EmbeddedMessage(Code1205, State42P00))),
     HtmlBody(TRUE, Page(<<Word("HTTP"), Word("ERROR:"), Word("404")>>, PlainMessage)),
     HtmlBody(TRUE, <<StartTag("html"), StartTag("body"), StartTag("div"), StartTag("h2"),
                      Data(JettyTitle), EndTag("h2"), EndTag("div"), StartTag("pre"),
                      Data(EmbeddedMessage(Code1205, State42P00)), EndTag("pre"),
                      EndTag("body"), EndTag("html")>>)}

\* a page with an end tag that closes nothing, and a page without the literal '<html>'
MalformedPage == HtmlBody(TRUE, <<StartTag("html"), EndTag("html"), EndTag("body"), StartTag("h2")>>)
UnmarkedPage == HtmlBody(FALSE, Page(JettyTitle, EmbeddedMessage(Code1205, State42P00)))

\* error envelopes whose message holds no error pattern, by sql_state
FieldEnvelopes == {ErrorEnvelope(1109, st, PlainMessage) : st \in SqlStates \cup {<<>>, <<"4", "2">>}}

\* error envelopes whose message embeds (or fails to embed) an error pattern
MessageEnvelopes ==
    {ErrorEnvelope(1109, <<"2", "2", "0", "0", "0">>, EmbeddedMessage(Code1205, st)) :
        st \in {State42P00, <<"9", "9", "9", "9", "9">>}}
    \cup {ErrorEnvelope(1109, <<"2", "3", "0", "0", "0">>, m) : m \in BrokenMessages}

ErrorBodies ==
    FieldEnvelopes \cup MessageEnvelopes \cup EmbeddedPages \cup PlainPages \cup OtherPages
    \cup {MalformedPage, UnmarkedPage, GarbageBody}

ResponseNames ==
    {Name("CreateStatement", "Response"), Name("Execute", "Response"), ErrorResponseName}

\* a serialized response message of class n (an ErrorResponse carries an error)
ResponseEnvelope(n) ==
    IF n = ErrorResponseName
    THEN ErrorEnvelope(1205, <<"4", "2", "P", "0", "0">>, TableNotFound)
    ELSE WireBody(n, Payload(n, 0, <<>>, <<>>))

OkBodies == {ResponseEnvelope(n) : n \in ResponseNames}

Response(status, body) == [status |-> status, body |-> body]
NoResponse == Response(0, GarbageBody)

OK == 200
SERVICE_UNAVAILABLE == 503

Responses ==
    {Response(OK, b) : b \in OkBodies \cup {GarbageBody}}
    \cup {Response(500, b) : b \in ErrorBodies \cup OkBodies}
    \cup {Response(404, b) : b \in OtherPages \cup {GarbageBody}}
    \cup {Response(SERVICE_UNAVAILABLE, b) :
             b \in OtherPages \cup
                   {HtmlBody(TRUE, Page(JettyTitle, EmbeddedMessage(Code1205, <<"0", "8", "0", "0", "1">>))),
                    ErrorEnvelope(1109, <<"0", "8", "0", "0", "1">>, PlainMessage),
                    ErrorEnvelope(0, <<>>, PlainMessage),
                    GarbageBody}}

(***************************************************************************)
(* The transport: AvaticaClient.connect, close and _post_request.          *)
(***************************************************************************)
NoConnection == 0
DefaultMaxRetries == 3

\* a call recorded in trace
Call(op, outcome, status, delay) == [op |-> op, outcome |-> outcome, status |-> status, delay |-> delay]
PostCall(outcome, status) == Call("POST", outcome, status, 0)
CloseCall == Call("close", "ok", 0, 0)
ConnectCall(outcome) == Call("connect", outcome, 0, 0)
SleepCall(delay) == Call("sleep", "ok", 0, delay)

\* math.exp(-n) in microseconds, with e taken as 2.718 and the result truncated
RECURSIVE ExpNeg(_)
ExpNeg(n) == IF n <= 0 THEN 1000000 ELSE (ExpNeg(n - 1) * 1000) \div 2718

\* a delay computed from the retries already made instead of those left
Delay_OfRetriesMade(count) == ExpNeg(max_retries - count + 1)

\* delay = math.exp(-retry_count)
Delay(count) == ExpNeg(count)

NoResult == [type |-> "none", value |-> Payload(NoName, 0, <<>>, <<>>), exc |-> NoExc]
Returned(v) == [type |-> "return", value |-> v, exc |-> NoExc]
Raised(e) == [type |-> "raise", value |-> Payload(NoName, 0, <<>>, <<>>), exc |-> e]

NoRequest == [kind |-> NoName, expected |-> NoName]

\* AvaticaClient.__init__(url, max_retries): arg is the argument, -1 standing for None
ClientMaxRetries(arg) == IF arg # -1 THEN arg ELSE DefaultMaxRetries

(***************************************************************************)
(* URLs (src/phoenixdb/avatica.py, parse_url).  A string of a URL is the   *)
(* sequence of its pieces: words and the separators ":", "//", "/", "?",   *)
(* "=".  '' is the empty sequence.                                         *)
(***************************************************************************)
ParseResult(scheme, netloc, path, params, query, fragment) ==
    [scheme |-> scheme, netloc |-> netloc, path |-> path, params |-> params, query |-> query,
     fragment |-> fragment]

\* s.find(t) + 1: the position of the first piece t of s, 0 when there is none
Find(s, t) == IF \E i \in 1..Len(s) : s[i] = t THEN CHOOSE i \in 1..Len(s) : s[i] = t /\ \A j \in 1..(i - 1) : s[j] # t ELSE 0

\* the position of the first piece of s at or after position from that ends a netloc, Len(s) + 1 when there is none
NetlocEnd(s, from) ==
    IF \E i \in from..Len(s) : s[i] \in {"/", "?", "#"}
    THEN CHOOSE i \in from..Len(s) : s[i] \in {"/", "?", "#"} /\ \A j \in from..(i - 1) : s[j] \notin {"/", "?", "#"}
    ELSE Len(s) + 1

\* the pieces int() accepts
PortNumbers == {"8765", "1234"}

\* urlparse.urlparse(url) of Python 2.7: a leading word before ":" is the scheme unless what follows it is a
\* port number, "//" starts the netloc, "?" starts the query
urlparse(u) ==
    LET i == Find(u, ":")
        isscheme == i = 2 /\ (u[1] = "http" \/ ~ (Len(u) = 3 /\ u[3] \in PortNumbers))
        scheme == IF isscheme THEN <<u[1]>> ELSE <<>>
        rest == IF isscheme THEN SubSeq(u, 3, Len(u)) ELSE u
        hasnetloc == Len(rest) >= 1 /\ rest[1] = "//"
        j == NetlocEnd(rest, 2)
        netloc == IF hasnetloc THEN SubSeq(rest, 2, j - 1) ELSE <<>>
        tail == IF hasnetloc THEN SubSeq(rest, j, Len(rest)) ELSE rest
        k == Find(tail, "?")
        path == IF k > 0 THEN SubSeq(tail, 1, k - 1) ELSE tail
        query == IF k > 0 THEN SubSeq(tail, k + 1, Len(tail)) ELSE <<>>
    IN  ParseResult(scheme, netloc, path, <<>>, query, <<>>)

\* parse_url(url): a bare host, or host:port, becomes http://host:port/ with port 8765 by default; any
\* other URL is what urlparse made of it
parse_url(u) ==
    LET parsed == urlparse(u)
    IN  IF parsed.scheme = <<>> /\ parsed.netloc = <<>> /\ parsed.path # <<>>
        THEN LET netloc == IF Find(parsed.path, ":") = 0
                           THEN parsed.path \o <<":", "8765">>
                           ELSE parsed.path
             IN  ParseResult(<<"http">>, netloc, <<"/">>, <<>>, <<>>, <<>>)
        ELSE parsed

NoUrl == ParseResult(<<>>, <<>>, <<>>, <<>>, <<>>, <<>>)

\* url arguments passed to AvaticaClient(...)
Host == <<"localhost">>
HostPort == <<"http", ":", "//", "localhost", ":", "8765", "/">>
Urls ==
    {Host,
     <<"localhost", ":", "8765">>,
     <<"localhost", ":", "1234">>,
     <<"localhost", "?", "v", "=", "9.9.9">>,
     HostPort,
     <<"http", ":", "//", "localhost", "/">>,
     <<"https", ":", "//", "localhost", ":", "8765", "/">>,
     <<"http", ":", "//", "localhost", ":", "8765", "/", "avatica">>,
     <<"http", ":", "//", "localhost", ":", "1234", "/", "avatica">>,
     <<"phoenix">>,
     HostPort \o <<"?", "v", "=", "1.2.0">>,
     HostPort \o <<"?", "v", "=", "1.3.0">>,
     HostPort \o <<"?", "v", "=", "9.9.9">>}

\* the client on its own: no Connection and no Cursor has been constructed on it
NoObjects ==
    /\ conn = <<>>
    /\ registry = <<>>
    /\ cursors = <<>>
    /\ session = <<>>
    /\ hist = <<>>
    /\ last = <<>>

Init ==
    /\ url = parse_url(Host)
    /\ \E arg \in {-1} \cup 0..MaxRetriesArg : max_retries = ClientMaxRetries(arg)
    /\ connection = NoConnection
    /\ handles = 0
    /\ pc = "idle"
    /\ request = NoRequest
    /\ retry_count = 0
    /\ response = NoResponse
    /\ trace = <<>>
    /\ result = NoResult
    /\ nrequests = 0
    /\ NoObjects

\* nothing has been constructed yet
UrlInit ==
    /\ url = NoUrl
    /\ max_retries = DefaultMaxRetries
    /\ connection = NoConnection
    /\ handles = 0
    /\ pc = "new"
    /\ request = NoRequest
    /\ retry_count = 0
    /\ response = NoResponse
    /\ trace = <<>>
    /\ result = NoResult
    /\ nrequests = 0
    /\ NoObjects

\* AvaticaClient(url, max_retries): __init__ stores parse_url(url), the retry budget and no connection
AvaticaClient(u, arg) ==
    /\ pc = "new"
    /\ url' = parse_url(u)
    /\ max_retries' = ClientMaxRetries(arg)
    /\ connection' = NoConnection
    /\ pc' = "idle"
    /\ UNCHANGED <<handles, request, retry_count, response, trace, result, nrequests>>
    /\ UNCHANGED dbvars

\* client.connect() succeeds: a new HTTPConnection is stored and connected
Connect ==
    /\ pc = "idle"
    /\ handles < MaxConnects
    /\ handles' = handles + 1
    /\ connection' = handles + 1
    /\ UNCHANGED <<url, max_retries, pc, request, retry_count, response, trace, result, nrequests>>
    /\ UNCHANGED dbvars

\* what connect() raises when the HTTPConnection cannot be opened
UnableToConnect ==
    ErrorArgs("InterfaceError", 2, Text("Unable to connect to the specified service"), 0, <<>>, "socket.error")

\* client.connect() fails: the new HTTPConnection is stored, its connect() raises and the
\* InterfaceError made of it leaves connect()
ConnectFails ==
    /\ pc = "idle"
    /\ handles < MaxConnects
    /\ handles' = handles + 1
    /\ connection' = handles + 1
    /\ result' = Raised(UnableToConnect)
    /\ UNCHANGED <<url, max_retries, pc, request, retry_count, response, trace, nrequests>>
    /\ UNCHANGED dbvars

\* client.close()
Close ==
    /\ pc = "idle"
    /\ connection # NoConnection
    /\ connection' = NoConnection
    /\ UNCHANGED <<url, max_retries, handles, pc, request, retry_count, response, trace, result, nrequests>>
    /\ UNCHANGED dbvars

(***************************************************************************)
(* _apply(request_data, expected_response_type) up to its call of          *)
(* _post_request, whose first statement is retry_count = self.max_retries. *)
(***************************************************************************)
RequestKinds == {Name("CreateStatement", "Request"), Name("PrepareAndExecute", "Request")}
ExpectedTypes == {NoName, Name("Execute", "Response")}

ApplyBegin(kind, expected) ==
    /\ pc = "idle"
    /\ nrequests < MaxRequests
    /\ nrequests' = nrequests + 1
    /\ request' = [kind |-> kind, expected |-> expected]
    /\ retry_count' = max_retries
    /\ trace' = <<>>
    /\ result' = NoResult
    /\ response' = NoResponse
    /\ pc' = "post"
    /\ UNCHANGED <<url, max_retries, connection, handles>>
    /\ UNCHANGED dbvars

(***************************************************************************)
(* One pass of the while loop of _post_request, by what the POST does.     *)
(***************************************************************************)
\* self.connection is None: self.connection.request raises AttributeError, which no handler catches
PostNoConnection ==
    /\ pc = "post"
    /\ connection = NoConnection
    /\ result' = Raised(ErrorArgs("AttributeError", 1, Text("NoneType has no attribute request"), 0, <<>>, ""))
    /\ pc' = "idle"
    /\ UNCHANGED <<url, max_retries, connection, handles, request, retry_count, response, trace, nrequests>>
    /\ UNCHANGED dbvars

\* a retry after a fault that keeps the connection it has, as the retry after a 503 does
PostFaultRetry_NoReconnect ==
    /\ pc = "post"
    /\ connection # NoConnection
    /\ retry_count > 0
    /\ trace' = trace \o <<PostCall("HTTPException", 0), SleepCall(Delay(retry_count))>>
    /\ retry_count' = retry_count - 1
    /\ UNCHANGED <<url, max_retries, connection, handles, pc, request, response, result, nrequests>>
    /\ UNCHANGED dbvars

\* httplib.HTTPException with budget left: close, connect, sleep, decrement, continue
PostFaultRetry ==
    /\ pc = "post"
    /\ connection # NoConnection
    /\ retry_count > 0
    /\ trace' = trace \o <<PostCall("HTTPException", 0), CloseCall, ConnectCall("ok"),
                           SleepCall(Delay(retry_count))>>
    /\ handles' = handles + 1
    /\ connection' = handles + 1
    /\ retry_count' = retry_count - 1
    /\ UNCHANGED <<url, max_retries, pc, request, response, result, nrequests>>
    /\ UNCHANGED dbvars

\* a failing reconnect that is slept over and retried like a failing POST
PostFaultReconnectFails_Retried ==
    /\ pc = "post"
    /\ connection # NoConnection
    /\ retry_count > 0
    /\ trace' = trace \o <<PostCall("HTTPException", 0), CloseCall, ConnectCall("socket.error"),
                           SleepCall(Delay(retry_count))>>
    /\ handles' = handles + 1
    /\ connection' = handles + 1
    /\ retry_count' = retry_count - 1
    /\ UNCHANGED <<url, max_retries, pc, request, response, result, nrequests>>
    /\ UNCHANGED dbvars

\* httplib.HTTPException with budget left, and self.connect() fails: its InterfaceError
\* leaves _post_request before the sleep; the new, unconnected HTTPConnection stays stored
PostFaultReconnectFails ==
    /\ pc = "post"
    /\ connection # NoConnection
    /\ retry_count > 0
    /\ trace' = trace \o <<PostCall("HTTPException", 0), CloseCall, ConnectCall("socket.error")>>
    /\ handles' = handles + 1
    /\ connection' = handles + 1
    /\ result' = Raised(UnableToConnect)
    /\ pc' = "idle"
    /\ UNCHANGED <<url, max_retries, request, retry_count, response, nrequests>>
    /\ UNCHANGED dbvars

\* httplib.HTTPException with no budget left: raise errors.InterfaceError('RPC request failed', cause=e)
PostFaultExhausted ==
    /\ pc = "post"
    /\ connection # NoConnection
    /\ ~(retry_count > 0)
    /\ trace' = Append(trace, PostCall("HTTPException", 0))
    /\ result' = Raised(ErrorKwargs("InterfaceError", Text("RPC request failed"), "HTTPException"))
    /\ pc' = "idle"
    /\ UNCHANGED <<url, max_retries, connection, handles, request, retry_count, response, nrequests>>
    /\ UNCHANGED dbvars

\* socket.error from the POST: not an HTTPException, so the except clause does not catch it
PostSocketError ==
    /\ pc = "post"
    /\ connection # NoConnection
    /\ trace' = Append(trace, PostCall("socket.error", 0))
    /\ result' = Raised(ErrorArgs("socket.error", 1, Text("Connection reset by peer"), 0, <<>>, ""))
    /\ pc' = "idle"
    /\ UNCHANGED <<url, max_retries, connection, handles, request, retry_count, response, nrequests>>
    /\ UNCHANGED dbvars

\* retrying only while more than one retry is left
RetriesOn_OffByOne(r, count) == r.status = 503 /\ count > 1

\* retrying on every server error status
RetriesOn_AnyServerError(r, count) == r.status >= 500 /\ count > 0

\* whether the else branch of the loop retries on this response
RetriesOn(r, count) == r.status = SERVICE_UNAVAILABLE /\ count > 0

\* a 503 retry that forgets to consume the budget
PostUnavailableRetry_NoDecrement(r) ==
    /\ pc = "post"
    /\ connection # NoConnection
    /\ r.status = 503 /\ retry_count > 0
    /\ trace' = trace \o <<PostCall("response", r.status), SleepCall(ExpNeg(retry_count))>>
    /\ UNCHANGED <<url, max_retries, connection, handles, pc, request, retry_count, response, result, nrequests>>
    /\ UNCHANGED dbvars

\* a 503 response with budget left: sleep, decrement, continue
PostUnavailableRetry(r) ==
    /\ pc = "post"
    /\ connection # NoConnection
    /\ RetriesOn(r, retry_count)
    /\ trace' = trace \o <<PostCall("response", r.status), SleepCall(Delay(retry_count))>>
    /\ retry_count' = retry_count - 1
    /\ UNCHANGED <<url, max_retries, connection, handles, pc, request, response, result, nrequests>>
    /\ UNCHANGED dbvars

\* any other response: return response
PostReturn(r) ==
    /\ pc = "post"
    /\ connection # NoConnection
    /\ ~RetriesOn(r, retry_count)
    /\ trace' = Append(trace, PostCall("response", r.status))
    /\ response' = r
    /\ pc' = "read"
    /\ UNCHANGED <<url, max_retries, connection, handles, request, retry_count, result, nrequests>>
    /\ UNCHANGED dbvars

(***************************************************************************)
(* _apply after _post_request returned.                                    *)
(***************************************************************************)
\* the branch without its final raise: a page that raised nothing is parsed as an envelope
ApplyError_NoFinalRaise(r) ==
    IF r.body.marker
    THEN LET pageerr == parse_error_page(r.body.events)
         IN  IF pageerr # NoExc THEN pageerr
             ELSE ErrorArgs("DecodeError", 1, Text("Error parsing message"), 0, <<>>, "")
    ELSE parse_error_protobuf(r.body)

\* the branch for response.status != httplib.OK: it always raises
ApplyError(r) ==
    IF r.body.marker
    THEN LET pageerr == parse_error_page(r.body.events)
         IN  IF pageerr # NoExc THEN pageerr
             ELSE ErrorArgs("InterfaceError", 2, Text("RPC request returned invalid status code"),
                            r.status, <<>>, "")
    ELSE parse_error_protobuf(r.body)

\* message.ParseFromString(response_body); return message.wrapped_message
ApplyOk(req, r) ==
    IF r.body.fmt # "wire" THEN Raised(DecodeError) ELSE Returned(r.body.payload)

ApplyResult(req, r) ==
    IF r.status # OK THEN Raised(ApplyError(r)) ELSE ApplyOk(req, r)

ApplyFinish ==
    /\ pc = "read"
    /\ result' = ApplyResult(request, response)
    /\ pc' = "idle"
    /\ UNCHANGED <<url, max_retries, connection, handles, request, retry_count, response, trace, nrequests>>
    /\ UNCHANGED dbvars

Next ==
    \/ Connect
    \/ Close
    \/ \E kind \in RequestKinds, expected \in ExpectedTypes : ApplyBegin(kind, expected)
    \/ PostNoConnection
    \/ PostFaultRetry
    \/ PostFaultReconnectFails
    \/ PostFaultExhausted
    \/ PostSocketError
    \/ \E r \in Responses : PostUnavailableRetry(r)
    \/ \E r \in Responses : PostReturn(r)
    \/ ApplyFinish

Spec == Init /\ [][Next]_vars

\* the requests of a client whose connection may fail to open
ConnectNext ==
    \/ Connect
    \/ ConnectFails
    \/ Close
    \/ \E kind \in RequestKinds, expected \in ExpectedTypes : ApplyBegin(kind, expected)
    \/ PostNoConnection
    \/ PostFaultRetry
    \/ PostFaultReconnectFails
    \/ PostFaultExhausted
    \/ PostSocketError
    \/ \E r \in Responses : PostUnavailableRetry(r)
    \/ \E r \in Responses : PostReturn(r)
    \/ ApplyFinish

ConnectSpec == Init /\ [][ConnectNext]_vars

\* the construction of the client, and the connections it opens and closes
UrlNext ==
    \/ \E u \in Urls, arg \in {-1} \cup 0..MaxRetriesArg : AvaticaClient(u, arg)
    \/ Connect
    \/ Close

UrlSpec == UrlInit /\ [][UrlNext]_vars

(***************************************************************************)
(* Readings of the trace of one _apply call.                               *)
(***************************************************************************)
IsPost(c) == c.op = "POST"
IsSleep(c) == c.op = "sleep"
IsClose(c) == c.op = "close"
IsConnect(c) == c.op = "connect"

Posts == SelectSeq(trace, IsPost)
Sleeps == SelectSeq(trace, IsSleep)
Closes == SelectSeq(trace, IsClose)
Connects == SelectSeq(trace, IsConnect)

\* an _apply call has ended
Ended == pc = "idle" /\ result.type # "none"

\* the call in progress (or the last one) got only the transient fault from every POST,
\* and every reconnect succeeded
OnlyFaults ==
    /\ Posts # <<>>
    /\ \A i \in 1..Len(Posts) : Posts[i].outcome = "HTTPException"
    /\ \A i \in 1..Len(Connects) : Connects[i].outcome = "ok"

\* every POST of the call was answered with HTTP 503
OnlyUnavailable ==
    /\ Posts # <<>>
    /\ \A i \in 1..Len(Posts) : Posts[i].outcome = "response" /\ Posts[i].status = SERVICE_UNAVAILABLE

\* the last call ended in _apply's handling of a response
Answered == Ended /\ response # NoResponse

(***************************************************************************)
(* C1.  With retry budget N = max_retries and a transport on which every   *)
(* POST raises the transient fault while every reconnect succeeds, one     *)
(* _post_request performs exactly N close+reconnect+sleep cycles, N+1 POST *)
(* attempts, and then raises InterfaceError wrapping the last fault.       *)
(* The counts hold (C1_Cycles); the final raise does not: the InterfaceError*)
(* is constructed with a keyword argument the class does not take.         *)
(***************************************************************************)
C1_Cycles ==
    (Ended /\ OnlyFaults) =>
        /\ Len(Posts) = max_retries + 1
        /\ Len(Closes) = max_retries
        /\ Len(Connects) = max_retries
        /\ Len(Sleeps) = max_retries

C1_FaultsEndInInterfaceError ==
    (Ended /\ OnlyFaults) =>
        /\ C1_Cycles
        /\ result.type = "raise"
        /\ result.exc.kind = "InterfaceError"
        /\ result.exc.cause = "HTTPException"

(***************************************************************************)
(* C2.  As stated: within one _post_request the sleep delays of successive *)
(* retries are strictly decreasing, each delay being exp(-remaining        *)
(* budget) with the budget decremented after each retry.                   *)
(***************************************************************************)
C2_DelaysOfBudget ==
    \A i \in 1..Len(Sleeps) : Sleeps[i].delay = ExpNeg(max_retries - (i - 1))

C2_DelaysStrictlyDecreasing ==
    /\ C2_DelaysOfBudget
    /\ \A i, j \in 1..Len(Sleeps) : i < j => Sleeps[i].delay > Sleeps[j].delay

(***************************************************************************)
(* C2, amended.  The delays of successive retries are strictly increasing: *)
(* the first retry waits shortest and every later retry waits strictly     *)
(* longer than the one before it; the i-th delay is exp(-(N - (i - 1))),   *)
(* the budget being decremented after each retry.                          *)
(***************************************************************************)
C2_DelaysStrictlyIncreasing ==
    /\ C2_DelaysOfBudget
    /\ \A i, j \in 1..Len(Sleeps) : i < j => Sleeps[i].delay < Sleeps[j].delay

C2_Witness ==
    /\ Len(Sleeps) >= 3
    /\ \E i \in 1..Len(Posts) : Posts[i].outcome = "HTTPException"
    /\ \E i \in 1..Len(Posts) : Posts[i].status = SERVICE_UNAVAILABLE

(***************************************************************************)
(* C3.  Within one _post_request the remaining budget starts at            *)
(* max_retries, never increases, and drops by exactly one per retry,       *)
(* whether the retry follows a transport fault or a 503; so a request makes*)
(* at most max_retries + 1 POST attempts and then returns a response or    *)
(* raises; max_retries itself never changes, so the next request starts    *)
(* with the full budget again.  A retry is a step that makes a POST and    *)
(* stays in the loop.                                                      *)
(***************************************************************************)
C3_BudgetStep ==
    /\ max_retries' = max_retries
    /\ (pc = "idle" /\ pc' = "post") => retry_count' = max_retries' /\ Posts' = <<>>
    /\ (pc = "post" /\ pc' = "post") =>
          /\ Len(Posts') = Len(Posts) + 1
          /\ Posts'[Len(Posts')].outcome = "HTTPException"
                \/ Posts'[Len(Posts')].status = SERVICE_UNAVAILABLE
          /\ retry_count' = retry_count - 1
          /\ retry_count' >= 0
    /\ (pc = "post" /\ pc' # "post") =>
          /\ retry_count' = retry_count
          /\ Len(Posts') <= Len(Posts) + 1
          /\ pc' = "read" => response' # NoResponse
          /\ pc' = "idle" => result'.type = "raise"
    /\ pc # "post" /\ pc' # "post" => retry_count' = retry_count
    /\ pc' \in {"post", "read"} => Len(Posts') = max_retries' - retry_count' + (IF pc' = "read" THEN 1 ELSE 0)
    /\ Len(Posts') <= max_retries' + 1

C3_SharedBudget == [][C3_BudgetStep]_vars

C3_Witness ==
    /\ nrequests = 2
    /\ Ended
    /\ max_retries >= 2
    /\ Len(Posts) = max_retries + 1
    /\ \E i \in 1..Len(Posts) : Posts[i].outcome = "HTTPException"
    /\ \E i \in 1..Len(Posts) : Posts[i].status = SERVICE_UNAVAILABLE
    /\ handles > 1 + Len(Connects)

OtherStatusPost(c) == IsPost(c) /\ c.outcome = "response" /\ c.status # SERVICE_UNAVAILABLE

C5_OnlyFaultAnd503Retry ==
    /\ \A i \in 1..Len(trace) :
          /\ OtherStatusPost(trace[i]) =>
                /\ i = Len(trace)
                /\ pc \in {"read", "idle"}
                /\ response.status = trace[i].status
          /\ IsSleep(trace[i]) =>
                \/ /\ i > 1
                   /\ IsPost(trace[i - 1])
                   /\ trace[i - 1].status = SERVICE_UNAVAILABLE
                \/ /\ i > 3
                   /\ IsConnect(trace[i - 1])
                   /\ IsClose(trace[i - 2])
                   /\ IsPost(trace[i - 3])
                   /\ trace[i - 3].outcome = "HTTPException"
          /\ (IsClose(trace[i]) \/ IsConnect(trace[i])) =>
                \E j \in 1..(i - 1) : j >= i - 2 /\ IsPost(trace[j]) /\ trace[j].outcome = "HTTPException"
    /\ pc \in {"post", "read"} => retry_count = max_retries - Len(Sleeps)
    /\ pc = "read" => OtherStatusPost(trace[Len(trace)]) \/ retry_count = 0

C5_Witness ==
    /\ pc = "read"
    /\ response.status = 500
    /\ retry_count > 0
    /\ Len(Sleeps) >= 1

(***************************************************************************)
(* The kind the prefix table of the specification gives a 5-character      *)
(* state, written out case by case.                                        *)
(***************************************************************************)
ExpectedKind(st) ==
    LET two == <<st[1], st[2]>>
        three == <<st[1], st[2], st[3]>>
    IN  IF two = <<"0", "8">> THEN "OperationalError"
        ELSE IF st = <<"2", "2", "0", "1", "8">> THEN "IntegrityError"
        ELSE IF two = <<"2", "2">> THEN "DataError"
        ELSE IF two = <<"2", "3">> THEN "IntegrityError"
        ELSE IF two = <<"2", "4">> \/ two = <<"2", "5">> THEN "InternalError"
        ELSE IF two = <<"4", "2">> THEN "ProgrammingError"
        ELSE IF three = <<"X", "L", "C">> THEN "OperationalError"
        ELSE IF three = <<"I", "N", "T">> THEN "InternalError"
        ELSE "InternalError"

\* the states that start with a prefix of the table
KnownStates ==
    {st \in SqlStates :
        \/ <<st[1], st[2]>> \in {<<"0", "8">>, <<"2", "2">>, <<"2", "3">>, <<"2", "4">>, <<"2", "5">>, <<"4", "2">>}
        \/ <<st[1], st[2], st[3]>> \in {<<"X", "L", "C">>, <<"I", "N", "T">>}}

(***************************************************************************)
(* C6.  For every 5-character SQLSTATE the raised exception kind is that   *)
(* of the first entry of the ordered prefix table that is a prefix of the  *)
(* state (22018 before its parent 22), and InternalError when no prefix    *)
(* matches; whether the state arrives in the sql_state field of an error   *)
(* envelope or embedded in the message of an error page.                   *)
(***************************************************************************)
C6_KindOfState ==
    \A st \in SqlStates :
        (Answered /\ response.status # OK
           /\ \/ response.body = ErrorEnvelope(1109, st, PlainMessage)
              \/ response.body = HtmlBody(TRUE, Page(JettyTitle, EmbeddedMessage(Code1205, st))))
        => /\ result.type = "raise"
           /\ result.exc.kind = ExpectedKind(st)

C6_Witness ==
    /\ Answered
    /\ response.status = 500
    /\ response.body = ErrorEnvelope(1109, <<"2", "2", "0", "1", "8">>, PlainMessage)
    /\ result.exc.kind = "IntegrityError"

(***************************************************************************)
(* C7.  As stated: a non-200 response whose body is an HTML page with the  *)
(* title 'HTTP ERROR: 500' under html>body>h2 and a message under          *)
(* html>body>p>pre that embeds 'ERROR <code> (<state>): <text> ->' raises  *)
(* the kind selected by <state>, carrying the numeric <code> and the       *)
(* <state>.                                                                *)
(***************************************************************************)
JettyPageOf(st) == HtmlBody(TRUE, Page(JettyTitle, EmbeddedMessage(Code1205, st)))

C8_Non200RaisesDatabaseError ==
    (Answered /\ response.status # OK) =>
        /\ result.type = "raise"
        /\ IsDatabaseError(result.exc)

(***************************************************************************)
(* C8, amended.  Every response that reaches _apply with a non-200 status  *)
(* makes the operation raise, never return.  A body that is an error       *)
(* envelope, or an HTML page with the 'HTTP ERROR: 500' title, raises a    *)
(* DatabaseError subtype: the kind mapped from the SQLSTATE when a         *)
(* structured error with a known prefix is found, InternalError carrying   *)
(* the raw message otherwise.  An HTML page whose html>body>h2 title is    *)
(* not that marker raises InterfaceError carrying the status code.  A body *)
(* that is neither (no '<html>' and not a serialized envelope) raises the  *)
(* decoder's own error, and a page with an unmatched end tag the parser's. *)
(***************************************************************************)
C8_Non200AlwaysRaises ==
    (Answered /\ response.status # OK) =>
        /\ result.type = "raise"
        /\ response.body.fmt = "wire" => IsDatabaseError(result.exc)
        /\ response.body \in {ErrorEnvelope(1109, st, PlainMessage) : st \in (SqlStates \ KnownStates) \cup {<<>>}} =>
              /\ result.exc.kind = "InternalError"
              /\ result.exc.nargs = 1
              /\ result.exc.message = PlainMessage
        /\ response.body \in EmbeddedPages \cup PlainPages => IsDatabaseError(result.exc)
        /\ response.body \in PlainPages =>
              /\ result.exc.kind = "InternalError"
              /\ result.exc.nargs = 1
        /\ response.body \in OtherPages =>
              /\ result.exc.kind = "InterfaceError"
              /\ result.exc.code = response.status
        /\ response.body \in {GarbageBody, UnmarkedPage} => result.exc.kind = "DecodeError"
        /\ response.body = MalformedPage => result.exc.kind = "IndexError"

C8_Witness ==
    /\ Answered
    /\ response.status = 404
    /\ response.body \in OtherPages
    /\ result.exc.kind = "InterfaceError"
    /\ result.exc.code = 404

(***************************************************************************)
(* C9.  An error envelope returned in-band with HTTP status 200 is routed  *)
(* to the error classifier and raised as the matching DatabaseError        *)
(* subtype; _apply never hands the payload of an error envelope back to    *)
(* the calling operation as if it were its response.                       *)
(***************************************************************************)
C9_InBandErrorIsRaised ==
    (Answered /\ response.status = OK /\ response.body.fmt = "wire"
       /\ response.body.name = ErrorResponseName)
    => /\ result.type = "raise"
       /\ IsDatabaseError(result.exc)

(***************************************************************************)
(* C10.  _apply accepts a 200 response only if the envelope's type name is *)
(* the one expected for the request: the request kind with 'Request'       *)
(* replaced by 'Response', or the explicit expected_response_type when     *)
(* given; any other name raises and its payload is not returned.           *)
(***************************************************************************)
ExpectedResponseName(req) ==
    IF req.expected # NoName THEN req.expected
    ELSE Name(req.kind.base, IF req.kind.suffix = "Request" THEN "Response" ELSE req.kind.suffix)

C10_OnlyExpectedResponseAccepted ==
    (Answered /\ response.status = OK /\ response.body.fmt = "wire") =>
        IF response.body.name = ExpectedResponseName(request)
        THEN result.type = "return"
        ELSE result.type = "raise" /\ result.exc.kind = "InterfaceError"


(***************************************************************************)
(* The DB API objects on top of the client: Connection                     *)
(* (src/phoenixdb/connection.py) and Cursor (src/phoenixdb/cursor.py).     *)
(* Each method is one step; the RPCs it makes through the client are       *)
(* recorded in order, and each of them either is answered or raises what   *)
(* _apply raised.                                                          *)
(***************************************************************************)
\* None, where the code holds an id, a position or an update count
NoId == -1
NoPos == -1
NoUpdateCount == -1

\* Cursor.arraysize, Cursor.itersize (class attributes), and the page size the tests set
DefaultArraysize == 1
DefaultItersize == 2000
TestItersize == 4

\* Connection._id (str(uuid.uuid4())) of the one connection
ConnectionId == "uuid-1"

StatementIds == 1..MaxStatementId
ResultSizes == {0, 1, MaxRows \div 2, MaxRows}
PageSizes == {TestItersize, DefaultItersize}

\* a common_pb2.Signature: the Java class names of its columns and of its parameters
Signature(columns, parameters) == [issignature |-> TRUE, columns |-> columns, parameters |-> parameters]
NoSignature == [issignature |-> FALSE, columns |-> <<>>, parameters |-> <<>>]
IntegerColumn == Signature(<<"java.lang.Integer">>, <<>>)
IntegerParameter == Signature(<<"java.lang.Integer">>, <<"java.lang.Integer">>)

\* Cursor._convert_class: (rep, field_name, cast_type, mutate_type), "None" for None
DataType(rep, field_name, cast_type, mutate_type) ==
    [rep |-> rep, field_name |-> field_name, cast_type |-> cast_type, mutate_type |-> mutate_type]

_convert_class(class_name) ==
    CASE class_name = "java.lang.String" -> DataType("STRING", "string_value", "str", "None")
      [] class_name = "java.math.BigDecimal" -> DataType("BIG_DECIMAL", "string_value", "Decimal", "None")
      [] class_name = "java.lang.Boolean" -> DataType("BOOLEAN", "boolean_value", "bool", "None")
      [] class_name = "java.lang.Byte" -> DataType("BYTE", "number_value", "bytes", "None")
      [] class_name = "java.lang.Short" -> DataType("SHORT", "number_value", "int", "None")
      [] class_name = "java.lang.Integer" -> DataType("INTEGER", "number_value", "int", "None")
      [] class_name = "java.lang.Long" -> DataType("LONG", "number_value", "int", "None")
      [] class_name = "java.lang.Float" -> DataType("FLOAT", "double_value", "float", "None")
      [] class_name = "java.lang.Double" -> DataType("DOUBLE", "double_value", "float", "None")
      [] class_name = "[B" -> DataType("BYTE_STRING", "bytes_value", "base64.b64decode", "Binary")
      [] class_name = "java.sql.Date" ->
            DataType("JAVA_SQL_DATE", "number_value", "date_from_java_sql_date", "date_to_java_sql_date")
      [] class_name = "java.sql.Time" ->
            DataType("JAVA_SQL_TIME", "number_value", "time_from_java_sql_time", "time_to_java_sql_time")
      [] class_name = "java.sql.Timestamp" ->
            DataType("JAVA_SQL_TIMESTAMP", "number_value", "datetime_from_java_sql_timestamp",
                     "datetime_to_java_sql_timestamp")
      [] OTHER -> DataType("OBJECT", "None", "None", "None")

DataTypes(class_names) == [i \in 1..Len(class_names) |-> _convert_class(class_names[i])]

(***************************************************************************)
(* Python values and common_pb2.TypedValue.  A Python value is a record:   *)
(* py is its type; n the number of an int, bool (1, 0) or float, or the    *)
(* proleptic ordinal of a date or datetime (date.toordinal()); sec and us  *)
(* the second of the day and the microsecond of a time or datetime; s the  *)
(* bytes of a str or the digits of a Decimal.                              *)
(***************************************************************************)
PyValue(py, n, sec, us, s) == [py |-> py, n |-> n, sec |-> sec, us |-> us, s |-> s]
None == PyValue("NoneType", 0, 0, 0, <<>>)
PyInt(n) == PyValue("int", n, 0, 0, <<>>)
PyBool(b) == PyValue("bool", IF b THEN 1 ELSE 0, 0, 0, <<>>)
PyFloat(n) == PyValue("float", n, 0, 0, <<>>)
PyStr(s) == PyValue("str", 0, 0, 0, s)
PyDecimal(s) == PyValue("Decimal", 0, 0, 0, s)
PyDate(ordinal) == PyValue("date", ordinal, 0, 0, <<>>)
PyTime(sec, us) == PyValue("time", 0, sec, us, <<>>)
PyDatetime(ordinal, sec, us) == PyValue("datetime", ordinal, sec, us, <<>>)

\* a == b in Python: numbers compare by value across int, bool and float, anything
\* else is equal to values of its own type only
PyNumbers == {"int", "bool", "float"}
PyEq(a, b) == IF a.py \in PyNumbers /\ b.py \in PyNumbers THEN a.n = b.n ELSE a = b

\* the outcome of evaluating an expression: a value, or the exception raised
Ok(value) == [exc |-> NoExc, value |-> value]
Err(exc) == [exc |-> exc, value |-> None]
PyTypeError == ErrorArgs("TypeError", 1, Text("wrong type"), 0, <<>>, "")
PyAttributeError == ErrorArgs("AttributeError", 1, Text("no such attribute"), 0, <<>>, "")

\* datetime.date(1970, 1, 1).toordinal()
EpochOrdinal == 719163
SecondsPerDay == 24 * 3600
MillisPerDay == SecondsPerDay * 1000

\* time_from_java_sql_time(n): (datetime(1970, 1, 1) + timedelta(milliseconds=n)).time()
time_from_java_sql_time(n) ==
    LET ms == n.n % MillisPerDay
    IN  Ok(PyTime(ms \div 1000, (ms % 1000) * 1000))

\* time_to_java_sql_time(t)
time_to_java_sql_time(t) ==
    IF t.py \notin {"time", "datetime"} THEN Err(PyAttributeError)
    ELSE LET hour == t.sec \div 3600
             minute == (t.sec \div 60) % 60
             second == t.sec % 60
         IN  Ok(PyInt(((hour * 60 + minute) * 60 + second) * 1000 + t.us \div 1000))

\* date_from_java_sql_date(n)
date_from_java_sql_date(n) == Ok(PyDate(EpochOrdinal + n.n))

\* date_to_java_sql_date(d): a datetime is cut to its date first
date_to_java_sql_date(d) ==
    IF d.py \notin {"date", "datetime"} THEN Err(PyTypeError)
    ELSE Ok(PyInt(d.n - EpochOrdinal))

\* datetime_from_java_sql_timestamp(n)
datetime_from_java_sql_timestamp(n) ==
    LET days == n.n \div MillisPerDay
        ms == n.n % MillisPerDay
    IN  Ok(PyDatetime(EpochOrdinal + days, ms \div 1000, (ms % 1000) * 1000))

\* datetime_to_java_sql_timestamp(d): td = d - datetime(1970, 1, 1)
datetime_to_java_sql_timestamp(d) ==
    IF d.py # "datetime" THEN Err(PyTypeError)
    ELSE LET days == d.n - EpochOrdinal
         IN  Ok(PyInt(d.us \div 1000 + (d.sec + days * 24 * 3600) * 1000))

\* the i-th character of the base64 alphabet (A-Z a-z 0-9 + /), and "="
B64Char(i) ==
    IF i < 26 THEN 65 + i ELSE IF i < 52 THEN 71 + i ELSE IF i < 62 THEN i - 4
    ELSE IF i = 62 THEN 43 ELSE 47
B64Pad == 61
B64Index(ch) == IF \E i \in 0..63 : B64Char(i) = ch THEN CHOOSE i \in 0..63 : B64Char(i) = ch ELSE -1

\* base64.b64encode(bytes): three bytes become four characters, a rest of one or two
\* bytes is padded
RECURSIVE b64encode(_)
b64encode(bytes) ==
    IF bytes = <<>> THEN <<>>
    ELSE LET k == Len(bytes)
             b1 == bytes[1]
             b2 == IF k >= 2 THEN bytes[2] ELSE 0
             b3 == IF k >= 3 THEN bytes[3] ELSE 0
             c1 == B64Char(b1 \div 4)
             c2 == B64Char((b1 % 4) * 16 + b2 \div 16)
             c3 == IF k >= 2 THEN B64Char((b2 % 16) * 4 + b3 \div 64) ELSE B64Pad
             c4 == IF k >= 3 THEN B64Char(b3 % 64) ELSE B64Pad
         IN  <<c1, c2, c3, c4>> \o (IF k > 3 THEN b64encode(SubSeq(bytes, 4, k)) ELSE <<>>)

\* base64.b64decode(chars): TypeError (Incorrect padding) unless the characters come in
\* well-formed groups of four
RECURSIVE b64decode(_)
b64decode(chars) ==
    IF chars = <<>> THEN Ok(PyStr(<<>>))
    ELSE IF Len(chars) < 4 THEN Err(PyTypeError)
    ELSE LET i1 == B64Index(chars[1])
             i2 == B64Index(chars[2])
             i3 == B64Index(chars[3])
             i4 == B64Index(chars[4])
             rest == b64decode(SubSeq(chars, 5, Len(chars)))
             bytes == IF chars[3] = B64Pad THEN <<i1 * 4 + i2 \div 16>>
                      ELSE IF chars[4] = B64Pad
                      THEN <<i1 * 4 + i2 \div 16, (i2 % 16) * 16 + i3 \div 4>>
                      ELSE <<i1 * 4 + i2 \div 16, (i2 % 16) * 16 + i3 \div 4, (i3 % 4) * 64 + i4>>
         IN  IF i1 < 0 \/ i2 < 0 \/ (i3 < 0 /\ chars[3] # B64Pad) \/ (i4 < 0 /\ chars[4] # B64Pad)
                \/ (chars[3] = B64Pad /\ chars[4] # B64Pad) \/ rest.exc # NoExc
             THEN Err(PyTypeError)
             ELSE Ok(PyStr(bytes \o rest.value.s))

\* phoenixdb.types.Binary(value): the base64 text of a byte string
Binary(value) == IF value.py # "str" THEN Err(PyTypeError) ELSE Ok(PyStr(b64encode(value.s)))

\* str(n) for an int: its decimal digits as characters, "-" first when negative
RECURSIVE Digits10(_)
Digits10(n) == IF n < 10 THEN <<48 + n>> ELSE Digits10(n \div 10) \o <<48 + (n % 10)>>
IntStr(n) == IF n < 0 THEN <<45>> \o Digits10(0 - n) ELSE Digits10(n)

\* cast_type(value), the fourth step of Cursor._transform_row; bytes is str in Python 2
Cast(cast_type, value) ==
    CASE cast_type = "str" -> Ok(PyStr(value.s))
      [] cast_type = "Decimal" -> Ok(PyDecimal(value.s))
      [] cast_type = "bool" -> Ok(PyBool(value.n # 0))
      [] cast_type = "bytes" -> Ok(PyStr(IF value.py = "str" THEN value.s ELSE IntStr(value.n)))
      [] cast_type = "int" -> Ok(PyInt(value.n))
      [] cast_type = "float" -> Ok(PyFloat(value.n))
      [] cast_type = "base64.b64decode" -> b64decode(value.s)
      [] cast_type = "date_from_java_sql_date" -> date_from_java_sql_date(value)
      [] cast_type = "time_from_java_sql_time" -> time_from_java_sql_time(value)
      [] cast_type = "datetime_from_java_sql_timestamp" -> datetime_from_java_sql_timestamp(value)
      [] OTHER -> Err(PyTypeError)

\* mutate_type(value), the mutator of Cursor._transform_parameters
Mutate(mutate_type, value) ==
    CASE mutate_type = "Binary" -> Binary(value)
      [] mutate_type = "date_to_java_sql_date" -> date_to_java_sql_date(value)
      [] mutate_type = "time_to_java_sql_time" -> time_to_java_sql_time(value)
      [] mutate_type = "datetime_to_java_sql_timestamp" -> datetime_to_java_sql_timestamp(value)
      [] OTHER -> Err(PyTypeError)

\* common_pb2.TypedValue(): every slot at its default; assigned lists the slots that
\* were assigned to
TypedValue ==
    [type |-> "PRIMITIVE_BOOLEAN", null |-> FALSE, string_value |-> <<>>, number_value |-> 0,
     boolean_value |-> FALSE, double_value |-> 0, bytes_value |-> <<>>, assigned |-> {}]

\* setattr(typed_value, field_name, value): the message checks the type of the value,
\* and the name of the attribute has to be a string
SetField(typed_value, field_name, value) ==
    LET set == [typed_value EXCEPT !.assigned = @ \cup {field_name}]
    IN  CASE field_name = "string_value" /\ value.py = "str" -> Ok([set EXCEPT !.string_value = value.s])
          [] field_name = "bytes_value" /\ value.py = "str" -> Ok([set EXCEPT !.bytes_value = value.s])
          [] field_name = "number_value" /\ value.py \in {"int", "bool"} -> Ok([set EXCEPT !.number_value = value.n])
          [] field_name = "boolean_value" /\ value.py \in {"int", "bool"} ->
                Ok([set EXCEPT !.boolean_value = value.n # 0])
          [] field_name = "double_value" /\ value.py \in PyNumbers -> Ok([set EXCEPT !.double_value = value.n])
          [] OTHER -> Err(PyTypeError)

\* getattr(column.scalar_value, field_name)
GetField(scalar_value, field_name) ==
    CASE field_name = "string_value" -> Ok(PyStr(scalar_value.string_value))
      [] field_name = "bytes_value" -> Ok(PyStr(scalar_value.bytes_value))
      [] field_name = "number_value" -> Ok(PyInt(scalar_value.number_value))
      [] field_name = "boolean_value" -> Ok(PyBool(scalar_value.boolean_value))
      [] field_name = "double_value" -> Ok(PyFloat(scalar_value.double_value))
      [] OTHER -> Err(PyTypeError)

\* a TypedValue as the server sends it for a number, and for SQL NULL
NumberValue(n) == [TypedValue EXCEPT !.type = "INTEGER", !.number_value = n]
NullValue == [TypedValue EXCEPT !.type = "NULL", !.null = TRUE]

\* a common_pb2.Row of one scalar Integer column: the row's number in the result set is its value
Column(has_array_value, scalar_value) ==
    [has_array_value |-> has_array_value, scalar_value |-> scalar_value]
Row(i) == <<Column(FALSE, NumberValue(i))>>

\* rows first..last of a result set, in order
RECURSIVE Rows(_, _)
Rows(first, lastrow) == IF first > lastrow THEN <<>> ELSE <<Row(first)>> \o Rows(first + 1, lastrow)

\* a common_pb2.Frame.  DefaultFrame is what reading an unset frame field gives, and
\* what the server sends when it reports no rows without reporting the end
Frame(offset, rows, done) == [isframe |-> TRUE, offset |-> offset, rows |-> rows, done |-> done]
NoFrame == [isframe |-> FALSE, offset |-> 0, rows |-> <<>>, done |-> FALSE]
DefaultFrame == Frame(0, <<>>, FALSE)

Min(a, b) == IF a <= b THEN a ELSE b

\* the frame a server holding a result set of n rows sends for a request at offset with
\* the row limit (negative: no limit): the next rows, done with the last one
ServerFrame(n, offset, limit) ==
    LET size == IF limit < 0 THEN n - offset ELSE Min(limit, n - offset)
    IN  Frame(offset, Rows(offset + 1, offset + size), offset + size = n)

\* an entry of ExecuteResponse.results
ResultSet(own_statement, statement_id, signature, first_frame, update_count) ==
    [own_statement |-> own_statement, statement_id |-> statement_id, signature |-> signature,
     first_frame |-> first_frame, update_count |-> update_count]

\* the attributes of a Cursor; life tells whether the object exists ("unborn", "live", "dead")
CursorObject(life) ==
    [life |-> life, _id |-> NoId, _signature |-> NoSignature, _column_data_types |-> <<>>,
     _parameter_data_types |-> <<>>, _frame |-> NoFrame, _pos |-> NoPos, _closed |-> FALSE,
     arraysize |-> DefaultArraysize, itersize |-> DefaultItersize, _updatecount |-> NoUpdateCount]

\* exceptions of this layer
ProgrammingError(message) == ErrorArgs("ProgrammingError", 1, message, 0, <<>>, "")
CursorClosed == ProgrammingError(<<Word("the"), Word("cursor"), Word("is"), Word("already"), Word("closed")>>)
ConnectionClosed ==
    ProgrammingError(<<Word("the"), Word("connection"), Word("is"), Word("already"), Word("closed")>>)
NoSelect ==
    ProgrammingError(<<Word("no"), Word("select"), Word("statement"), Word("was"), Word("executed")>>)
\* what a failing RPC raises out of _apply
RpcFault == InternalError(PlainMessage)
\* self.connection.request on a client whose connection is None
NoneTypeError == ErrorArgs("AttributeError", 1, Text("NoneType has no attribute request"), 0, <<>>, "")
\* assigning an attribute that is not a field of a protobuf message
NoFieldError == ErrorArgs("AttributeError", 1, Text("Assignment not allowed"), 0, <<>>, "")
\* subscripting a protobuf message
NotSubscriptable == ErrorArgs("TypeError", 1, Text("object has no attribute __getitem__"), 0, <<>>, "")

(***************************************************************************)
(* RPCs.  A method in progress is a record m: the cursor it works on (cur), *)
(* the requests sent so far (rpcs), the exception raised (exc, NoExc while *)
(* none), the rows collected (out), whether the last fetchone returned     *)
(* None (none), and the ids _set_id was called with (sets).  failat        *)
(* numbers the request that the server fails (0: none).                    *)
(***************************************************************************)
Rpc(op, connection_id, statement_id, offset, max_row_count) ==
    [op |-> op, connection_id |-> connection_id, statement_id |-> statement_id,
     offset |-> offset, max_row_count |-> max_row_count, parameter_values |-> <<>>]

Method(cur) == [cur |-> cur, rpcs |-> <<>>, exc |-> NoExc, out |-> <<>>, none |-> FALSE, sets |-> <<>>]

\* _apply(request) as the methods above it see it: AttributeError before anything is
\* sent when the client is closed, else the request is sent and answered or failed
Apply(m, call, failat) ==
    IF m.exc # NoExc THEN m
    ELSE IF connection = NoConnection THEN [m EXCEPT !.exc = NoneTypeError]
    ELSE [m EXCEPT !.rpcs = Append(@, call),
                   !.exc = IF Len(m.rpcs) + 1 = failat THEN RpcFault ELSE NoExc]

createStatement(m, connectionId, failat) ==
    Apply(m, Rpc("createStatement", connectionId, NoId, 0, 0), failat)

closeStatement(m, connectionId, statementId, failat) ==
    Apply(m, Rpc("closeStatement", connectionId, statementId, 0, 0), failat)

prepareAndExecute(m, connectionId, statementId, maxRowCount, failat) ==
    Apply(m, Rpc("prepareAndExecute", connectionId, statementId, 0, maxRowCount), failat)

prepare(m, connectionId, maxRowCount, failat) ==
    Apply(m, Rpc("prepare", connectionId, NoId, 0, maxRowCount), failat)

\* AvaticaClient.execute sends the parameter values and no row limit
execute(m, connectionId, statementId, parameterValues, failat) ==
    Apply(m, [Rpc("execute", connectionId, statementId, 0, -1) EXCEPT !.parameter_values = parameterValues],
          failat)

\* the fields of requests_pb2.FetchRequest
FetchRequestFields == {"connection_id", "statement_id", "offset", "fetch_max_row_count", "frame_max_size"}

\* the attribute AvaticaClient.fetch assigns the connection id to
FetchConnectionAttribute == "connetion_id"

\* AvaticaClient.fetch: the assignments to the request come before _apply
fetch(m, connectionId, statementId, offset, fetchMaxRowCount, failat) ==
    IF m.exc # NoExc THEN m
    ELSE IF FetchConnectionAttribute \notin FetchRequestFields THEN [m EXCEPT !.exc = NoFieldError]
    ELSE Apply(m, Rpc("fetch", connectionId, statementId, offset, fetchMaxRowCount), failat)

(***************************************************************************)
(* Cursor: the private helpers.                                            *)
(***************************************************************************)
\* a _set_id that stores the new id without closing the statement it replaces
_set_id_NoClose(m, id, failat) ==
    IF m.exc # NoExc THEN m
    ELSE [m EXCEPT !.sets = Append(@, id), !.cur._id = id]

\* Cursor._set_id
_set_id(m, id, failat) ==
    IF m.exc # NoExc THEN m
    ELSE LET called == [m EXCEPT !.sets = Append(@, id)]
             closed == IF m.cur._id # NoId /\ m.cur._id # id
                       THEN closeStatement(called, ConnectionId, m.cur._id, failat)
                       ELSE called
         IN  IF closed.exc # NoExc THEN closed ELSE [closed EXCEPT !.cur._id = id]

\* Cursor._set_signature (a signature read from a response is never None)
_set_signature(m, signature) ==
    IF m.exc # NoExc THEN m
    ELSE [m EXCEPT !.cur._signature = signature,
                   !.cur._column_data_types =
                        IF signature.issignature THEN DataTypes(signature.columns) ELSE <<>>,
                   !.cur._parameter_data_types =
                        IF signature.issignature THEN DataTypes(signature.parameters) ELSE <<>>]

\* Cursor._set_frame
_set_frame(m, frame) ==
    IF m.exc # NoExc THEN m
    ELSE [m EXCEPT !.cur._frame = frame,
                   !.cur._pos = IF frame.isframe /\ frame.rows # <<>> THEN 0 ELSE NoPos]

\* Cursor._fetch_next_frame; total is the size of the result set the server holds
_fetch_next_frame(m, total, failat) ==
    LET offset == m.cur._frame.offset + Len(m.cur._frame.rows)
        fetched == fetch(m, ConnectionId, m.cur._id, offset, m.cur.itersize, failat)
    IN  _set_frame(fetched, ServerFrame(total, offset, m.cur.itersize))

\* a _process_results that records the update count before it adopts the statement
_process_results_CountFirst(m, results, failat) ==
    IF m.exc # NoExc \/ results = <<>> THEN m
    ELSE LET res == results[1]
             counted == [m EXCEPT !.cur._updatecount = res.update_count]
             adopted == IF res.own_statement THEN _set_id(counted, res.statement_id, failat) ELSE counted
         IN  _set_frame(_set_signature(adopted, res.signature), res.first_frame)

\* Cursor._process_results
_process_results(m, results, failat) ==
    IF m.exc # NoExc \/ results = <<>> THEN m
    ELSE LET res == results[1]
             adopted == IF res.own_statement THEN _set_id(m, res.statement_id, failat) ELSE m
             framed == _set_frame(_set_signature(adopted, res.signature), res.first_frame)
         IN  IF framed.exc # NoExc THEN framed
             ELSE [framed EXCEPT !.cur._updatecount = res.update_count]

\* the parameters argument of execute: None, or a list of Python values
Parameters(items) == [isnone |-> FALSE, items |-> items]
NoParameters == [isnone |-> TRUE, items |-> <<>>]

\* a _transform_parameters that applies the mutator before it looks for None
RECURSIVE _transform_parameters_MutateFirst(_, _, _)
_transform_parameters_MutateFirst(parameters, types, i) ==
    IF i > Len(parameters) \/ i > Len(types) THEN Ok(<<>>)
    ELSE LET value == parameters[i]
             data_type == types[i]
             mutated == IF data_type.mutate_type # "None" THEN Mutate(data_type.mutate_type, value)
                        ELSE Ok(value)
             typed_value ==
                IF mutated.exc # NoExc THEN mutated
                ELSE IF mutated.value = None THEN Ok([TypedValue EXCEPT !.null = TRUE, !.type = "NULL"])
                ELSE SetField([TypedValue EXCEPT !.null = FALSE, !.type = data_type.rep],
                              data_type.field_name, mutated.value)
             rest == _transform_parameters_MutateFirst(parameters, types, i + 1)
         IN  IF typed_value.exc # NoExc THEN typed_value
             ELSE IF rest.exc # NoExc THEN rest
             ELSE Ok(<<typed_value.value>> \o rest.value)

\* Cursor._transform_parameters from value i on: zip stops at the shorter of the values
\* and the parameter types
RECURSIVE _transform_parameters(_, _, _)
_transform_parameters(parameters, types, i) ==
    IF i > Len(parameters) \/ i > Len(types) THEN Ok(<<>>)
    ELSE LET value == parameters[i]
             data_type == types[i]
             mutated == IF data_type.mutate_type # "None" THEN Mutate(data_type.mutate_type, value)
                        ELSE Ok(value)
             typed_value ==
                IF value = None THEN Ok([TypedValue EXCEPT !.null = TRUE, !.type = "NULL"])
                ELSE IF mutated.exc # NoExc THEN mutated
                ELSE SetField([TypedValue EXCEPT !.null = FALSE, !.type = data_type.rep],
                              data_type.field_name, mutated.value)
             rest == _transform_parameters(parameters, types, i + 1)
         IN  IF typed_value.exc # NoExc THEN typed_value
             ELSE IF rest.exc # NoExc THEN rest
             ELSE Ok(<<typed_value.value>> \o rest.value)

\* a _transform_row that looks the slot up and casts it before it tests the null flag
RECURSIVE _transform_row_LookupFirst(_, _, _)
_transform_row_LookupFirst(row, types, i) ==
    IF i > Len(row) THEN Ok(<<>>)
    ELSE LET column == row[i]
             rest == _transform_row_LookupFirst(row, types, i + 1)
             dtype == types[i]
             value == GetField(column.scalar_value, dtype.field_name)
             cast == IF value.exc # NoExc THEN value ELSE Cast(dtype.cast_type, value.value)
         IN  IF column.has_array_value THEN rest
             ELSE IF cast.exc # NoExc THEN cast
             ELSE IF rest.exc # NoExc THEN rest
             ELSE IF column.scalar_value.null THEN Ok(<<None>> \o rest.value)
             ELSE Ok(<<cast.value>> \o rest.value)

\* Cursor._transform_row from column i on: the Python values of the row, or the exception
\* that ended it; a value that is an array is left out
RECURSIVE _transform_row(_, _, _)
_transform_row(row, types, i) ==
    IF i > Len(row) THEN Ok(<<>>)
    ELSE LET column == row[i]
             rest == _transform_row(row, types, i + 1)
             dtype == types[i]
             value == GetField(column.scalar_value, dtype.field_name)
             cast == IF value.exc # NoExc THEN value ELSE Cast(dtype.cast_type, value.value)
         IN  IF column.has_array_value THEN rest
             ELSE IF column.scalar_value.null
             THEN IF rest.exc # NoExc THEN rest ELSE Ok(<<None>> \o rest.value)
             ELSE IF cast.exc # NoExc THEN cast
             ELSE IF rest.exc # NoExc THEN rest
             ELSE Ok(<<cast.value>> \o rest.value)

\* a fetchone that looks at the position before it looks for a frame
fetchone_PositionFirst(m, total, failat) ==
    IF m.exc # NoExc THEN m
    ELSE IF m.cur._pos = NoPos THEN [m EXCEPT !.none = TRUE]
    ELSE IF ~m.cur._frame.isframe THEN [m EXCEPT !.exc = NoSelect]
    ELSE LET rows == m.cur._frame.rows
             row == _transform_row(rows[m.cur._pos + 1], m.cur._column_data_types, 1)
             pos == m.cur._pos + 1
             moved == IF pos >= Len(rows)
                      THEN IF ~m.cur._frame.done
                           THEN _fetch_next_frame([m EXCEPT !.cur._pos = NoPos], total, failat)
                           ELSE [m EXCEPT !.cur._pos = NoPos]
                      ELSE [m EXCEPT !.cur._pos = pos]
         IN  IF row.exc # NoExc THEN [m EXCEPT !.exc = row.exc]
             ELSE IF moved.exc # NoExc THEN moved ELSE [moved EXCEPT !.out = Append(@, row.value)]

\* Cursor.fetchone: the row is appended to m.out, m.none tells that it returned None
fetchone(m, total, failat) ==
    IF m.exc # NoExc THEN m
    ELSE IF ~m.cur._frame.isframe THEN [m EXCEPT !.exc = NoSelect]
    ELSE IF m.cur._pos = NoPos THEN [m EXCEPT !.none = TRUE]
    ELSE LET rows == m.cur._frame.rows
             row == _transform_row(rows[m.cur._pos + 1], m.cur._column_data_types, 1)
             pos == m.cur._pos + 1
             moved == IF pos >= Len(rows)
                      THEN IF ~m.cur._frame.done
                           THEN _fetch_next_frame([m EXCEPT !.cur._pos = NoPos], total, failat)
                           ELSE [m EXCEPT !.cur._pos = NoPos]
                      ELSE [m EXCEPT !.cur._pos = pos]
         IN  IF row.exc # NoExc THEN [m EXCEPT !.exc = row.exc]
             ELSE IF moved.exc # NoExc THEN moved ELSE [moved EXCEPT !.out = Append(@, row.value)]

\* the loop of fetchmany (size rows at most) and of fetchall (size negative: no limit)
RECURSIVE FetchLoop(_, _, _, _)
FetchLoop(m, size, total, failat) ==
    IF size = 0 THEN m
    ELSE LET step == fetchone(m, total, failat)
         IN  IF step.exc # NoExc \/ step.none THEN step
             ELSE FetchLoop(step, size - 1, total, failat)

\* Cursor.fetchmany(size): size None (here NoSize) is arraysize; the loop runs while size > 0
NoSize == -1
fetchmany(m, size, total, failat) ==
    LET n == IF size = NoSize THEN m.cur.arraysize ELSE size
    IN  FetchLoop(m, IF n > 0 THEN n ELSE 0, total, failat)

\* Cursor.fetchall
fetchall(m, total, failat) == FetchLoop(m, -1, total, failat)

\* a close that forgets the statement although the server refused to close it
CursorClose_ForgetsId(m, failat) ==
    IF m.exc # NoExc THEN m
    ELSE IF m.cur._closed THEN [m EXCEPT !.exc = CursorClosed]
    ELSE LET told == IF m.cur._id # NoId
                     THEN closeStatement(m, ConnectionId, m.cur._id, failat)
                     ELSE m
         IN  IF told.exc # NoExc THEN [told EXCEPT !.cur._id = NoId]
             ELSE [told EXCEPT !.cur._id = NoId, !.cur._signature = NoSignature,
                               !.cur._column_data_types = <<>>, !.cur._frame = NoFrame,
                               !.cur._pos = NoPos, !.cur._closed = TRUE]

\* a close that goes on when the cursor is closed already
CursorClose_NoGuard(m, failat) ==
    IF m.exc # NoExc THEN m
    ELSE LET told == IF m.cur._id # NoId
                     THEN closeStatement(m, ConnectionId, m.cur._id, failat)
                     ELSE m
         IN  IF told.exc # NoExc THEN told
             ELSE [told EXCEPT !.cur._id = NoId, !.cur._signature = NoSignature,
                               !.cur._column_data_types = <<>>, !.cur._frame = NoFrame,
                               !.cur._pos = NoPos, !.cur._closed = TRUE]

\* a close that marks the cursor closed before it tells the server
CursorClose_MarksFirst(m, failat) ==
    IF m.exc # NoExc THEN m
    ELSE IF m.cur._closed THEN [m EXCEPT !.exc = CursorClosed]
    ELSE LET marked == [m EXCEPT !.cur._closed = TRUE, !.cur._signature = NoSignature,
                                 !.cur._column_data_types = <<>>, !.cur._frame = NoFrame,
                                 !.cur._pos = NoPos]
         IN  IF m.cur._id # NoId
             THEN [closeStatement(marked, ConnectionId, m.cur._id, failat) EXCEPT !.cur._id = NoId]
             ELSE marked

\* Cursor.close
CursorClose(m, failat) ==
    IF m.exc # NoExc THEN m
    ELSE IF m.cur._closed THEN [m EXCEPT !.exc = CursorClosed]
    ELSE LET told == IF m.cur._id # NoId
                     THEN closeStatement(m, ConnectionId, m.cur._id, failat)
                     ELSE m
         IN  IF told.exc # NoExc THEN told
             ELSE [told EXCEPT !.cur._id = NoId, !.cur._signature = NoSignature,
                               !.cur._column_data_types = <<>>, !.cur._frame = NoFrame,
                               !.cur._pos = NoPos, !.cur._closed = TRUE]

(***************************************************************************)
(* The operations of Cursor and Connection, one step each.                 *)
(***************************************************************************)
\* what is remembered of the last operation: who was called with what, the requests it
\* sent, the exception it raised (NoExc: it returned), the ids it called _set_id with,
\* and for a fetch what it returned
Operation(name, c, size, m) ==
    [name |-> name, c |-> c, size |-> size, rpcs |-> m.rpcs, exc |-> m.exc, sets |-> m.sets,
     out |-> IF m.exc = NoExc THEN m.out ELSE <<>>,
     none |-> m.exc = NoExc /\ m.none]

NoCursor == 0
\* the cursors of the connection, numbered in the order of their creation
Cursors == {1, 2}
Live(c) == cursors[c].life = "live"

\* the ids the server can hand to cursor c: those no other cursor holds
FreeIds(c) == {id \in StatementIds : \A d \in DOMAIN cursors : d # c => cursors[d]._id # id}

UpdateCounts == {0, 1}

\* ExecuteResponse.results for a statement with a result set of n rows: no entry, or one
\* entry whose first frame is the first page, or holds no rows and no end
Results(n, limit) ==
    {<<>>} \cup
    {<<ResultSet(FALSE, 0, IntegerColumn, frame, count)>> :
        count \in UpdateCounts, frame \in {ServerFrame(n, 0, limit), DefaultFrame}}

\* phoenixdb.connect(url): a connected client, and Connection.__init__ without session arguments
DbInit ==
    /\ url = parse_url(Host)
    /\ max_retries = DefaultMaxRetries
    /\ connection = 1
    /\ handles = 1
    /\ pc = "idle"
    /\ request = NoRequest
    /\ retry_count = 0
    /\ response = NoResponse
    /\ trace = <<>>
    /\ result = NoResult
    /\ nrequests = 0
    /\ conn = [_closed |-> FALSE, _autocommit |-> FALSE, _readonly |-> FALSE]
    /\ session = [auto_commit |-> FALSE, read_only |-> FALSE]
    /\ registry = <<>>
    /\ cursors = [c \in Cursors |-> CursorObject("unborn")]
    /\ hist = [c \in Cursors |-> [total |-> 0, got |-> <<>>, count |-> NoUpdateCount, bound |-> NoParameters]]
    /\ last = Operation("connect", NoCursor, NoSize,
                        [Method(CursorObject("unborn")) EXCEPT
                            !.rpcs = <<Rpc("openConnection", ConnectionId, NoId, 0, 0),
                                       Rpc("connectionSync", ConnectionId, NoId, 0, 0)>>])

tvars == <<url, max_retries, connection, handles, pc, request, retry_count, response, trace, result, nrequests>>
clientvars == <<url, max_retries, handles, pc, request, retry_count, response, trace, result, nrequests>>

\* Connection.cursor()
ConnectionCursor(c) ==
    /\ cursors[c].life = "unborn"
    /\ \A d \in 1..(c - 1) : cursors[d].life # "unborn"
    /\ IF conn._closed
       THEN /\ last' = Operation("cursor", NoCursor, NoSize,
                                 [Method(cursors[c]) EXCEPT !.exc = ConnectionClosed])
            /\ UNCHANGED <<cursors, registry>>
       ELSE /\ cursors' = [cursors EXCEPT ![c] = CursorObject("live")]
            /\ registry' = Append(registry, c)
            /\ last' = Operation("cursor", c, NoSize, Method(CursorObject("live")))
    /\ UNCHANGED <<conn, session, hist, tvars>>

\* cursor.itersize = size
SetItersize(c, size) ==
    /\ Live(c)
    /\ cursors[c].itersize # size
    /\ cursors' = [cursors EXCEPT ![c].itersize = size]
    /\ last' = Operation("itersize", c, size, Method(cursors[c]))
    /\ UNCHANGED <<conn, registry, session, hist, tvars>>

\* an execute that encodes the parameters with the table the cursor held before the prepare
CursorExecute_EncodesFirst(c, parameters, signature, n, id, results, failat) ==
    /\ Live(c)
    /\ LET m == Method(cursors[c])
           reset == _set_frame([m EXCEPT !.cur._updatecount = -1], NoFrame)
           done ==
             IF cursors[c]._closed THEN [m EXCEPT !.exc = CursorClosed]
             ELSE IF parameters.isnone
             THEN LET created == IF reset.cur._id = NoId
                                 THEN _set_id(createStatement(reset, ConnectionId, failat), id, failat)
                                 ELSE reset
                      answered == prepareAndExecute(created, ConnectionId, created.cur._id,
                                                    created.cur.itersize, failat)
                  IN  _process_results(answered, results, failat)
             ELSE LET prepared == prepare(reset, ConnectionId, reset.cur.itersize, failat)
                      installed == _set_signature(_set_id(prepared, id, failat), signature)
                      typed == _transform_parameters(parameters.items, reset.cur._parameter_data_types, 1)
                      answered == IF installed.exc # NoExc THEN installed
                                  ELSE IF typed.exc # NoExc THEN [installed EXCEPT !.exc = typed.exc]
                                  ELSE execute(installed, ConnectionId, installed.cur._id, typed.value, failat)
                  IN  _process_results(answered, results, failat)
       IN  /\ cursors' = [cursors EXCEPT ![c] = done.cur]
           /\ last' = Operation(IF parameters.isnone THEN "execute" ELSE "execute?", c, NoSize, done)
           /\ hist' = IF cursors[c]._closed THEN hist
                      ELSE [hist EXCEPT ![c] = [total |-> IF done.cur._frame.isframe THEN n ELSE 0,
                                                got |-> <<>>,
                                                count |-> IF done.exc = NoExc /\ results # <<>>
                                                          THEN results[1].update_count
                                                          ELSE NoUpdateCount,
                                                bound |-> parameters]]
    /\ UNCHANGED <<conn, registry, session, tvars>>

\* Cursor.execute(operation, parameters): n is the size of the statement's result set, id
\* the statement id createStatement or prepare answers, signature the signature prepare
\* answers, results the answer of the execution
CursorExecute(c, parameters, signature, n, id, results, failat) ==
    /\ Live(c)
    /\ LET m == Method(cursors[c])
           reset == _set_frame([m EXCEPT !.cur._updatecount = -1], NoFrame)
           done ==
             IF cursors[c]._closed THEN [m EXCEPT !.exc = CursorClosed]
             ELSE IF parameters.isnone
             THEN LET created == IF reset.cur._id = NoId
                                 THEN _set_id(createStatement(reset, ConnectionId, failat), id, failat)
                                 ELSE reset
                      answered == prepareAndExecute(created, ConnectionId, created.cur._id,
                                                    created.cur.itersize, failat)
                  IN  _process_results(answered, results, failat)
             ELSE LET prepared == prepare(reset, ConnectionId, reset.cur.itersize, failat)
                      installed == _set_signature(_set_id(prepared, id, failat), signature)
                      typed == _transform_parameters(parameters.items, installed.cur._parameter_data_types, 1)
                      answered == IF installed.exc # NoExc THEN installed
                                  ELSE IF typed.exc # NoExc THEN [installed EXCEPT !.exc = typed.exc]
                                  ELSE execute(installed, ConnectionId, installed.cur._id, typed.value, failat)
                  IN  _process_results(answered, results, failat)
       IN  /\ cursors' = [cursors EXCEPT ![c] = done.cur]
           /\ last' = Operation(IF parameters.isnone THEN "execute" ELSE "execute?", c, NoSize, done)
           /\ hist' = IF cursors[c]._closed THEN hist
                      ELSE [hist EXCEPT ![c] = [total |-> IF done.cur._frame.isframe THEN n ELSE 0,
                                                got |-> <<>>,
                                                count |-> IF done.exc = NoExc /\ results # <<>>
                                                          THEN results[1].update_count
                                                          ELSE NoUpdateCount,
                                                bound |-> parameters]]
    /\ UNCHANGED <<conn, registry, session, tvars>>

\* Cursor.executemany(operation, seq_of_parameters) with nsets parameter sets:
\* statement['id'] subscripts the StatementHandle message the prepare returned, so the
\* loop over the parameter sets is never entered
CursorExecutemany(c, nsets, failat) ==
    /\ Live(c)
    /\ LET m == Method(cursors[c])
           reset == _set_frame([m EXCEPT !.cur._updatecount = -1], NoFrame)
           prepared == prepare(reset, ConnectionId, 0, failat)
           done == IF cursors[c]._closed THEN [m EXCEPT !.exc = CursorClosed]
                   ELSE IF prepared.exc # NoExc THEN prepared
                   ELSE [prepared EXCEPT !.exc = NotSubscriptable]
       IN  /\ cursors' = [cursors EXCEPT ![c] = done.cur]
           /\ last' = Operation("executemany", c, nsets, done)
           /\ hist' = IF cursors[c]._closed THEN hist
                      ELSE [hist EXCEPT ![c] = [total |-> 0, got |-> <<>>, count |-> NoUpdateCount,
                                                bound |-> NoParameters]]
    /\ UNCHANGED <<conn, registry, session, tvars>>

\* what a fetch method leaves behind
Fetched(c, name, size, m) ==
    /\ cursors' = [cursors EXCEPT ![c] = m.cur]
    /\ last' = Operation(name, c, size, m)
    /\ hist' = [hist EXCEPT ![c].got = @ \o last'.out]
    /\ UNCHANGED <<conn, registry, session, tvars>>

CursorFetchone(c, failat) ==
    /\ Live(c)
    /\ Fetched(c, "fetchone", NoSize, fetchone(Method(cursors[c]), hist[c].total, failat))

FetchSizes == {NoSize, 0, 2, TestItersize + 1}

CursorFetchmany(c, size, failat) ==
    /\ Live(c)
    /\ Fetched(c, "fetchmany", size, fetchmany(Method(cursors[c]), size, hist[c].total, failat))

CursorFetchall(c, failat) ==
    /\ Live(c)
    /\ Fetched(c, "fetchall", NoSize, fetchall(Method(cursors[c]), hist[c].total, failat))

\* Cursor.rownumber: self._frame['offset'] subscripts the Frame message; the value returned
\* is the one element of m.out, m.none tells that it returned None
rownumber(m) ==
    IF m.exc # NoExc THEN m
    ELSE IF m.cur._frame.isframe /\ m.cur._pos # NoPos THEN [m EXCEPT !.exc = NotSubscriptable]
    ELSE IF m.cur._pos = NoPos THEN [m EXCEPT !.none = TRUE]
    ELSE [m EXCEPT !.out = <<m.cur._pos>>]

\* cursor.rownumber
CursorRownumber(c) ==
    /\ Live(c)
    /\ last' = Operation("rownumber", c, NoSize, rownumber(Method(cursors[c])))
    /\ UNCHANGED <<conn, registry, cursors, session, hist, tvars>>

\* cursor.close()
CursorCloseCall(c, failat) ==
    /\ Live(c)
    /\ LET done == CursorClose(Method(cursors[c]), failat)
       IN  /\ cursors' = [cursors EXCEPT ![c] = done.cur]
           /\ last' = Operation("close", c, NoSize, done)
    /\ UNCHANGED <<conn, registry, session, hist, tvars>>

\* the last reference to a cursor goes away: Cursor.__del__ closes it when neither it nor
\* the connection is closed (what that raises is not propagated), and the weak reference's
\* callback takes it out of Connection._cursors
RECURSIVE Without(_, _)
Without(seq, c) ==
    IF seq = <<>> THEN <<>>
    ELSE IF Head(seq) = c THEN Tail(seq) ELSE <<Head(seq)>> \o Without(Tail(seq), c)

CursorDel(c, failat) ==
    /\ Live(c)
    /\ LET m == Method(cursors[c])
           done == IF ~conn._closed /\ ~cursors[c]._closed THEN CursorClose(m, failat) ELSE m
       IN  /\ cursors' = [cursors EXCEPT ![c] = [done.cur EXCEPT !.life = "dead"]]
           /\ last' = Operation("__del__", c, NoSize, [done EXCEPT !.exc = NoExc])
    /\ registry' = Without(registry, c)
    /\ UNCHANGED <<conn, session, hist, tvars>>

\* a loop that closes every cursor that still exists, also those closed already
RECURSIVE CloseCursors_NoTest(_, _, _, _)
CloseCursors_NoTest(i, cs, m, failat) ==
    IF i > Len(registry) \/ m.exc # NoExc THEN [cursors |-> cs, m |-> m]
    ELSE LET c == registry[i]
         IN  IF cs[c].life = "live"
             THEN LET closed == CursorClose([m EXCEPT !.cur = cs[c]], failat)
                  IN  CloseCursors_NoTest(i + 1, [cs EXCEPT ![c] = closed.cur], closed, failat)
             ELSE CloseCursors_NoTest(i + 1, cs, m, failat)

\* the loop of Connection.close over self._cursors: cs are the cursors so far, m carries
\* the requests and the exception
RECURSIVE CloseCursors(_, _, _, _)
CloseCursors(i, cs, m, failat) ==
    IF i > Len(registry) \/ m.exc # NoExc THEN [cursors |-> cs, m |-> m]
    ELSE LET c == registry[i]
         IN  IF cs[c].life = "live" /\ ~cs[c]._closed
             THEN LET closed == CursorClose([m EXCEPT !.cur = cs[c]], failat)
                  IN  CloseCursors(i + 1, [cs EXCEPT ![c] = closed.cur], closed, failat)
             ELSE CloseCursors(i + 1, cs, m, failat)

closeConnection(m, connectionId, failat) ==
    Apply(m, Rpc("closeConnection", connectionId, NoId, 0, 0), failat)

\* a close that closes the transport and marks the connection closed whatever the requests did
ConnectionClose_Regardless(failat) ==
    LET m == Method(CursorObject("unborn"))
        swept == CloseCursors(1, cursors, m, failat)
        told == closeConnection(swept.m, ConnectionId, failat)
    IN  IF conn._closed
        THEN /\ last' = Operation("close", NoCursor, NoSize, [m EXCEPT !.exc = ConnectionClosed])
             /\ UNCHANGED <<conn, registry, cursors, session, hist, tvars>>
        ELSE /\ cursors' = swept.cursors
             /\ last' = Operation("close", NoCursor, NoSize, told)
             /\ conn' = [conn EXCEPT !._closed = TRUE]
             /\ connection' = NoConnection
             /\ UNCHANGED <<registry, session, hist, clientvars>>

\* Connection.close()
ConnectionClose(failat) ==
    LET m == Method(CursorObject("unborn"))
        swept == CloseCursors(1, cursors, m, failat)
        told == closeConnection(swept.m, ConnectionId, failat)
    IN  IF conn._closed
        THEN /\ last' = Operation("close", NoCursor, NoSize, [m EXCEPT !.exc = ConnectionClosed])
             /\ UNCHANGED <<conn, registry, cursors, session, hist, tvars>>
        ELSE /\ cursors' = swept.cursors
             /\ last' = Operation("close", NoCursor, NoSize, told)
             /\ conn' = IF told.exc = NoExc THEN [conn EXCEPT !._closed = TRUE] ELSE conn
             /\ connection' = IF told.exc = NoExc THEN NoConnection ELSE connection
             /\ UNCHANGED <<registry, session, hist, clientvars>>

\* Connection.commit()
ConnectionCommit ==
    /\ last' = Operation("commit", NoCursor, NoSize,
                         [Method(CursorObject("unborn")) EXCEPT
                             !.exc = IF conn._closed THEN ConnectionClosed ELSE NoExc])
    /\ UNCHANGED <<conn, registry, cursors, session, hist, tvars>>

\* AvaticaClient.connectionSync(connectionId, connProps): a property that is not named
\* is sent as False, and each is sent flagged as set; props maps the names given to values
SessionArgs == {"None", "True", "False"}
connectionSync(m, connectionId, failat) ==
    Apply(m, Rpc("connectionSync", connectionId, NoId, 0, 0), failat)

Synced(autocommit, readonly) == [auto_commit |-> autocommit = "True", read_only |-> readonly = "True"]

\* Connection.set_session(autocommit, readonly): no test of self._closed
ConnectionSetSession(autocommit, readonly, failat) ==
    LET told == connectionSync(Method(CursorObject("unborn")), ConnectionId, failat)
    IN  /\ last' = Operation("set_session", NoCursor, NoSize, told)
        /\ session' = IF told.rpcs # <<>> /\ told.exc = NoExc THEN Synced(autocommit, readonly) ELSE session
        /\ conn' = IF told.exc = NoExc
                   THEN [conn EXCEPT !._autocommit = session'.auto_commit, !._readonly = session'.read_only]
                   ELSE conn
        /\ UNCHANGED <<registry, cursors, hist, tvars>>

\* a setter of autocommit that stores both properties of the answer, as set_session does
ConnectionSetAutocommit_StoresBoth(value, failat) ==
    LET m == Method(CursorObject("unborn"))
        told == IF conn._closed THEN [m EXCEPT !.exc = ConnectionClosed]
                ELSE connectionSync(m, ConnectionId, failat)
    IN  /\ last' = Operation("autocommit", NoCursor, IF value THEN 1 ELSE 0, told)
        /\ session' = IF told.rpcs # <<>> /\ told.exc = NoExc
                      THEN Synced(IF value THEN "True" ELSE "False", "None") ELSE session
        /\ conn' = IF told.exc = NoExc
                   THEN [conn EXCEPT !._autocommit = session'.auto_commit, !._readonly = session'.read_only]
                   ELSE conn
        /\ UNCHANGED <<registry, cursors, hist, tvars>>

\* the setter of Connection.autocommit
ConnectionSetAutocommit(value, failat) ==
    LET m == Method(CursorObject("unborn"))
        told == IF conn._closed THEN [m EXCEPT !.exc = ConnectionClosed]
                ELSE connectionSync(m, ConnectionId, failat)
    IN  /\ last' = Operation("autocommit", NoCursor, IF value THEN 1 ELSE 0, told)
        /\ session' = IF told.rpcs # <<>> /\ told.exc = NoExc
                      THEN Synced(IF value THEN "True" ELSE "False", "None") ELSE session
        /\ conn' = IF told.exc = NoExc THEN [conn EXCEPT !._autocommit = session'.auto_commit] ELSE conn
        /\ UNCHANGED <<registry, cursors, hist, tvars>>

\* the setter of Connection.readonly
ConnectionSetReadonly(value, failat) ==
    LET m == Method(CursorObject("unborn"))
        told == IF conn._closed THEN [m EXCEPT !.exc = ConnectionClosed]
                ELSE connectionSync(m, ConnectionId, failat)
    IN  /\ last' = Operation("readonly", NoCursor, IF value THEN 1 ELSE 0, told)
        /\ session' = IF told.rpcs # <<>> /\ told.exc = NoExc
                      THEN Synced("None", IF value THEN "True" ELSE "False") ELSE session
        /\ conn' = IF told.exc = NoExc THEN [conn EXCEPT !._readonly = session'.read_only] ELSE conn
        /\ UNCHANGED <<registry, cursors, hist, tvars>>

\* a request that was given no connection id: the field keeps its default
NoConnectionId == ""

\* AvaticaClient.getCatalogs() and getSchemas(): the request is sent as constructed, the
\* assignment of a connection id is commented out
getCatalogs(m, failat) == Apply(m, Rpc("getCatalogs", NoConnectionId, NoId, 0, 0), failat)
getSchemas(m, failat) == Apply(m, Rpc("getSchemas", NoConnectionId, NoId, 0, 0), failat)

\* AvaticaClient.getTables() with its default arguments: request.catalog = None is refused
\* by the message before anything is sent
getTables(m, failat) == IF m.exc # NoExc THEN m ELSE [m EXCEPT !.exc = PyTypeError]

\* a metadata lookup called on the client of the connection
ClientMetadata(name, failat) ==
    LET m == Method(CursorObject("unborn"))
        done == CASE name = "getCatalogs" -> getCatalogs(m, failat)
                  [] name = "getSchemas" -> getSchemas(m, failat)
                  [] OTHER -> getTables(m, failat)
    IN  /\ last' = Operation(name, NoCursor, NoSize, done)
        /\ UNCHANGED <<conn, registry, cursors, session, hist, tvars>>

MetadataLookups == {"getCatalogs", "getSchemas", "getTables"}

\* which request of an operation the server fails: none, or one of the first four
FailAt == 0..4

\* the parameters the statements of the life cycle are executed with: none, or one integer
StatementParameters == {NoParameters, Parameters(<<PyInt(1)>>)}

\* the numbers of parameter sets handed to executemany
ParameterSets == 0..MaxParameterSets

\* the answers tried in the life cycle of statements: no entry, or a result set of one
\* row for the statement that was executed or for a statement of its own
SmallResults(ids) ==
    {<<>>} \cup
    {<<ResultSet(TRUE, id, IntegerColumn, ServerFrame(1, 0, -1), count)>> : id \in ids, count \in UpdateCounts} \cup
    {<<ResultSet(FALSE, 0, IntegerColumn, ServerFrame(1, 0, -1), count)>> : count \in UpdateCounts}

\* Connections and their cursors: creating, using, closing and discarding them
DbNext ==
    \/ \E c \in Cursors : ConnectionCursor(c)
    \/ \E c \in Cursors, parameters \in StatementParameters, failat \in 0..1 :
          \E id \in FreeIds(c) :
             CursorExecute(c, parameters, IntegerParameter, 1, id, <<ResultSet(FALSE, 0, IntegerColumn, ServerFrame(1, 0, -1), 1)>>,
                           failat)
    \/ \E c \in Cursors, failat \in 0..1 : CursorExecutemany(c, 1, failat)
    \/ \E c \in Cursors : CursorFetchone(c, 0)
    \/ \E c \in Cursors, size \in {NoSize, 0} : CursorFetchmany(c, size, 0)
    \/ \E c \in Cursors : CursorFetchall(c, 0)
    \/ \E c \in Cursors, failat \in 0..1 : CursorCloseCall(c, failat)
    \/ \E c \in Cursors, failat \in 0..1 : CursorDel(c, failat)
    \/ \E failat \in FailAt : ConnectionClose(failat)
    \/ ConnectionCommit
    \/ \E failat \in 0..1 : ConnectionSetSession("None", "None", failat)
    \/ \E failat \in 0..1 : ConnectionSetAutocommit(FALSE, failat)
    \/ \E failat \in 0..1 : ConnectionSetReadonly(FALSE, failat)

DbSpec == DbInit /\ [][DbNext]_vars

\* One cursor and the statements it holds: every answer and every failing request
StatementNext ==
    \/ ConnectionCursor(1)
    \/ /\ \E parameters \in StatementParameters, failat \in FailAt :
          \E id \in StatementIds, results \in SmallResults(StatementIds) :
             CursorExecute(1, parameters, IntegerParameter, 1, id, results, failat)
    \/ \E nsets \in ParameterSets, failat \in 0..1 : CursorExecutemany(1, nsets, failat)
    \/ CursorFetchone(1, 0)
    \/ \E failat \in 0..1 : CursorCloseCall(1, failat)

StatementSpec == DbInit /\ [][StatementNext]_vars

\* One cursor paging through result sets of every size
PagingNext ==
    \/ ConnectionCursor(1)
    \/ \E size \in PageSizes : SetItersize(1, size)
    \/ \E parameters \in StatementParameters, n \in ResultSizes :
          \E results \in Results(n, cursors[1].itersize) :
             CursorExecute(1, parameters, IntegerParameter, n, 1, results, 0)
    \/ CursorFetchone(1, 0)
    \/ \E size \in FetchSizes : CursorFetchmany(1, size, 0)
    \/ CursorFetchall(1, 0)
    \/ CursorCloseCall(1, 0)

PagingSpec == DbInit /\ [][PagingNext]_vars

\* One cursor reading result sets of every size row by row, and telling its position
FetchoneNext ==
    \/ ConnectionCursor(1)
    \/ \E size \in PageSizes : SetItersize(1, size)
    \/ \E n \in ResultSizes :
          \E results \in Results(n, cursors[1].itersize) :
             CursorExecute(1, NoParameters, IntegerColumn, n, 1, results, 0)
    \/ \E failat \in 0..1 : CursorFetchone(1, failat)
    \/ CursorRownumber(1)
    \/ CursorCloseCall(1, 0)

FetchoneSpec == DbInit /\ [][FetchoneNext]_vars

\* the parameter classes of the statements prepared one after the other, and a value of each
ParameterClasses == {"java.lang.Integer", "java.lang.Long", "java.lang.String"}
ParameterOf(class_name) == IF class_name = "java.lang.String" THEN PyStr(<<97>>) ELSE PyInt(1)

\* the answers to a statement prepared with the signature: no entry, or one row under
\* that signature, for the statement executed or for a statement of its own
PreparedResults(signature, ids) ==
    {<<>>} \cup
    {<<ResultSet(TRUE, id, signature, ServerFrame(1, 0, -1), 1)>> : id \in ids} \cup
    {<<ResultSet(FALSE, 0, signature, ServerFrame(1, 0, -1), 1)>>}

\* One cursor executing statements with and without parameters, each prepared with its
\* own signature, under every failing request
PrepareNext ==
    \/ ConnectionCursor(1)
    \/ SetItersize(1, TestItersize)
    \/ /\ \E class_name \in ParameterClasses, id \in StatementIds, failat \in FailAt :
          LET signature == Signature(<<"java.lang.Integer">>, <<class_name>>)
          IN  \E results \in PreparedResults(signature, StatementIds) :
                 CursorExecute(1, Parameters(<<ParameterOf(class_name)>>), signature, 1, id, results, failat)
    \/ /\ \E id \in StatementIds, failat \in FailAt :
          \E results \in PreparedResults(IntegerColumn, StatementIds) :
             CursorExecute(1, NoParameters, IntegerColumn, 1, id, results, failat)
    \/ \E failat \in 0..1 : CursorCloseCall(1, failat)

PrepareSpec == DbInit /\ [][PrepareNext]_vars

\* the columns of a result with an Integer, a String and an Integer column, and the value
\* of each kind the server sends in column i: SQL NULL, a scalar, or an array
MixedColumns == Signature(<<"java.lang.Integer", "java.lang.String", "java.lang.Integer">>, <<>>)
ColumnKinds == {"null", "scalar", "array"}
WireValue(kind, i) ==
    CASE kind = "null" -> Column(FALSE, NullValue)
      [] kind = "array" -> Column(TRUE, TypedValue)
      [] OTHER -> IF i = 2
                  THEN Column(FALSE, [TypedValue EXCEPT !.type = "STRING", !.string_value = <<96 + i>>])
                  ELSE Column(FALSE, NumberValue(i))
WireRow(kinds) == [i \in 1..Len(kinds) |-> WireValue(kinds[i], i)]

\* One cursor reading a row of every mix of null, scalar and array values
RowsNext ==
    \/ ConnectionCursor(1)
    \/ /\ \E k1 \in ColumnKinds, k2 \in ColumnKinds, k3 \in ColumnKinds :
          CursorExecute(1, NoParameters, MixedColumns, 1, 1,
                        <<ResultSet(FALSE, 0, MixedColumns, Frame(0, <<WireRow(<<k1, k2, k3>>)>>, TRUE), 1)>>, 0)
    \/ CursorFetchone(1, 0)
    \/ CursorFetchmany(1, NoSize, 0)
    \/ CursorFetchall(1, 0)

RowsSpec == DbInit /\ [][RowsNext]_vars

\* the column and parameter classes of Cursor._convert_class, and one it does not know
Classes ==
    {"java.lang.String", "java.math.BigDecimal", "java.lang.Boolean", "java.lang.Byte", "java.lang.Short",
     "java.lang.Integer", "java.lang.Long", "java.lang.Float", "java.lang.Double", "[B", "java.sql.Date",
     "java.sql.Time", "java.sql.Timestamp"}
UnknownClass == "java.lang.Object"

\* representative Python values of each class
ValuesOf(class_name) ==
    CASE class_name = "java.lang.String" -> {PyStr(<<>>), PyStr(<<97, 98>>)}
      [] class_name = "java.math.BigDecimal" -> {PyDecimal(<<49, 46, 53>>)}
      [] class_name = "java.lang.Boolean" -> {PyBool(TRUE), PyBool(FALSE)}
      [] class_name = "java.lang.Byte" -> {PyInt(5), PyInt(-128)}
      [] class_name = "java.lang.Short" -> {PyInt(-32768), PyInt(32767)}
      [] class_name = "java.lang.Integer" -> {PyInt(0), PyInt(2147483647)}
      [] class_name = "java.lang.Long" -> {PyInt(1), PyInt(-2147483647)}
      [] class_name = "java.lang.Float" -> {PyFloat(1)}
      [] class_name = "java.lang.Double" -> {PyFloat(0), PyFloat(-2)}
      [] class_name = "[B" -> {PyStr(<<>>), PyStr(<<0>>), PyStr(<<255, 1>>), PyStr(<<77, 97, 110>>),
                               PyStr(<<1, 2, 3, 4>>)}
      [] class_name = "java.sql.Date" -> {PyDate(EpochOrdinal), PyDate(EpochOrdinal - 1), PyDate(EpochOrdinal + 366)}
      [] class_name = "java.sql.Time" -> {PyTime(0, 0), PyTime(43200, 0), PyTime(86399, 999000), PyTime(1, 1500)}
      [] class_name = "java.sql.Timestamp" ->
            {PyDatetime(EpochOrdinal, 0, 0), PyDatetime(EpochOrdinal - 1, 86399, 999000),
             PyDatetime(EpochOrdinal + 20, 3661, 1000)}
      [] OTHER -> {PyInt(7)}

\* a server that stores the parameter of an UPSERT and sends it back as the one column of
\* the one row of the result: the TypedValue it was sent, under the signature it prepared
Echo(signature, parameters) ==
    LET typed == _transform_parameters(parameters.items, DataTypes(signature.parameters), 1)
    IN  IF typed.exc # NoExc THEN <<>>
        ELSE <<ResultSet(FALSE, 0, signature, Frame(0, <<[i \in 1..Len(typed.value) |-> Column(FALSE, typed.value[i])]>>, TRUE), 1)>>

\* One cursor sending one value of every class, None included, and reading it back
TypesNext ==
    \/ ConnectionCursor(1)
    \/ /\ \E class_name \in Classes \cup {UnknownClass} :
          \E value \in ValuesOf(class_name) \cup {None} :
             LET signature == Signature(<<class_name>>, <<class_name>>)
             IN  CursorExecute(1, Parameters(<<value>>), signature, 1, 1, Echo(signature, Parameters(<<value>>)), 0)
    \/ CursorFetchone(1, 0)

TypesSpec == DbInit /\ [][TypesNext]_vars

\* One connection with one cursor: the session properties, the statements of the cursor
\* (the first frame of a result holds one row of two), and the metadata lookups
ConnectionNext ==
    \/ ConnectionCursor(1)
    \/ /\ \E parameters \in StatementParameters, failat \in 0..1 :
          CursorExecute(1, parameters, IntegerParameter, 2, 1,
                        <<ResultSet(FALSE, 0, IntegerColumn, Frame(0, Rows(1, 1), FALSE), 1)>>, failat)
    \/ CursorFetchone(1, 0)
    \/ \E failat \in 0..1 : CursorCloseCall(1, failat)
    \/ \E failat \in 0..2 : ConnectionClose(failat)
    \/ ConnectionCommit
    \/ \E autocommit \in SessionArgs, readonly \in SessionArgs, failat \in 0..1 :
          ConnectionSetSession(autocommit, readonly, failat)
    \/ \E value \in BOOLEAN, failat \in 0..1 : ConnectionSetAutocommit(value, failat)
    \/ \E value \in BOOLEAN, failat \in 0..1 : ConnectionSetReadonly(value, failat)
    \/ \E name \in MetadataLookups, failat \in 0..1 : ClientMetadata(name, failat)

ConnectionSpec == DbInit /\ [][ConnectionNext]_vars

(***************************************************************************)
(* Readings of a step of the DB API layer.  A step whose last' names an    *)
(* operation is a call of that operation on cursor last'.c; the unprimed   *)
(* variables are the state the call started in.                            *)
(***************************************************************************)
Called(name, c) == last'.name = name /\ last'.c = c

\* the current frame is the first page an orderly server sends for the result set
\* (rows in it unless the result set is empty, done exactly with the last row)
OrderlyFirstFrame(c) ==
    /\ cursors[c]._frame.isframe
    /\ cursors[c]._frame = ServerFrame(hist[c].total, 0, cursors[c].itersize)

\* the rows of a result set of n rows as fetchone hands them out
RowValues(n) == [i \in 1..n |-> <<PyInt(i)>>]

\* the number of frames after the first in which n rows are delivered page rows at a time
FramesAfterFirst(n, page) == IF n = 0 THEN 0 ELSE (n + page - 1) \div page - 1

IsFetch(call) == call.op = "fetch"
Offsets(calls) == [i \in 1..Len(calls) |-> calls[i].offset]

(***************************************************************************)
(* C11.  Given a result delivered as frames F0..Fk with F0.offset = 0 (F0  *)
(* returned by execute, only Fk done), consuming all rows with fetchall    *)
(* issues exactly k fetch RPCs after the execute, the i-th of them at the  *)
(* offset that is the number of rows received so far, each requesting at   *)
(* most itersize rows, and none once a done frame has been received.       *)
(* Stated for a fetchall that starts at the first row of F0, the frames    *)
(* being pages of itersize rows.  The code sends no fetch RPC at all:      *)
(* AvaticaClient.fetch raises AttributeError while it fills in the request.*)
(***************************************************************************)
C11_Step ==
    \A c \in Cursors :
        (Called("fetchall", c) /\ OrderlyFirstFrame(c) /\ cursors[c]._pos = 0) =>
            last'.rpcs = [i \in 1..FramesAfterFirst(hist[c].total, cursors[c].itersize) |->
                            Rpc("fetch", ConnectionId, cursors[c]._id, i * cursors[c].itersize,
                                cursors[c].itersize)]

C11_FetchallFetchesEveryFrame == [][C11_Step]_vars

(***************************************************************************)
(* C12.  Executing a query without parameters with page size (itersize) 4  *)
(* against a 10-row result and then calling fetchall results in exactly 3  *)
(* frames being fetched, at offsets 0, 4 and 8: the first with the         *)
(* execute, the other two by fetch RPCs.                                   *)
(***************************************************************************)
C12_Step ==
    \A c \in Cursors :
        (/\ Called("fetchall", c)
         /\ last.name = "execute" /\ last.c = c /\ last.exc = NoExc
         /\ cursors[c].itersize = 4 /\ hist[c].total = 10
         /\ OrderlyFirstFrame(c)) =>
            <<cursors[c]._frame.offset>> \o Offsets(SelectSeq(last'.rpcs, IsFetch)) = <<0, 4, 8>>

C12_TenRowsInThreeFrames == [][C12_Step]_vars

(***************************************************************************)
(* C13.  The rows returned by any sequence of fetchone, fetchmany(n) and   *)
(* fetchall calls after one execute, concatenated in call order, are the   *)
(* server's result rows in their original order, none duplicated and none  *)
(* skipped; fetchmany(n) returns exactly min(n, rows remaining) rows and   *)
(* fetchall returns all remaining rows, across frame boundaries.  Stated   *)
(* for results whose first frame is orderly.                               *)
(***************************************************************************)
C13_Step ==
    \A c \in Cursors :
        LET remaining == hist[c].total - Len(hist[c].got)
            size == IF last'.size = NoSize THEN cursors[c].arraysize ELSE last'.size
        IN  (OrderlyFirstFrame(c) /\ hist[c].got = SubSeq(RowValues(hist[c].total), 1, Len(hist[c].got))) =>
                /\ Called("fetchall", c) =>
                      /\ last'.exc = NoExc
                      /\ hist'[c].got = RowValues(hist[c].total)
                /\ Called("fetchmany", c) =>
                      /\ last'.exc = NoExc
                      /\ Len(last'.out) = Min(size, remaining)
                      /\ hist'[c].got = SubSeq(RowValues(hist[c].total), 1, Len(hist[c].got) + Min(size, remaining))
                /\ Called("fetchone", c) =>
                      /\ last'.exc = NoExc
                      /\ last'.none = (remaining = 0)
                      /\ hist'[c].got = SubSeq(RowValues(hist[c].total), 1, Len(hist[c].got) + Min(1, remaining))

C13_RowsInOrderNoneSkipped == [][C13_Step]_vars

(***************************************************************************)
(* C14.  When the server delivers a frame that has no rows and done=false  *)
(* (as the first frame of an execute or as the result of a fetch), the     *)
(* cursor raises InternalError; such a frame is never silently treated as  *)
(* the end of the result set: fetchone never returns None while the        *)
(* current frame is not done.                                              *)
(***************************************************************************)
C14_EmptyFrameNotDoneRaises ==
    \A c \in Cursors :
        /\ (last.c = c /\ last.name \in {"execute", "execute?"} /\ cursors[c]._frame = DefaultFrame) =>
              last.exc.kind = "InternalError"
        /\ (last.c = c /\ last.name = "fetchone" /\ last.none) => cursors[c]._frame.done

(***************************************************************************)
(* Readings of a step for the life cycle of cursors and statements.        *)
(***************************************************************************)
CursorOperations == {"execute", "execute?", "executemany", "fetchone", "fetchmany", "fetchall"}
ConnectionOperations == {"cursor", "commit", "set_session", "autocommit", "readonly"}

IsCloseStatement(call) == call.op = "closeStatement"
StatementsOf(calls) == [i \in 1..Len(calls) |-> calls[i].statement_id]

\* the cursor holds nothing of a statement and is marked closed
Discarded(cur) ==
    /\ cur._id = NoId /\ cur._signature = NoSignature /\ cur._column_data_types = <<>>
    /\ cur._frame = NoFrame /\ cur._pos = NoPos /\ cur._closed

(***************************************************************************)
(* C15.  Calling close on a cursor that is already closed, or on a         *)
(* connection that is already closed, raises ProgrammingError and issues   *)
(* no RPC (no closeStatement, no closeConnection) and leaves the object    *)
(* closed (and everything else as it was).                                 *)
(***************************************************************************)
C15_Step ==
    /\ \A c \in Cursors :
          (Called("close", c) /\ cursors[c]._closed) =>
              /\ last'.exc.kind = "ProgrammingError"
              /\ last'.rpcs = <<>>
              /\ cursors'[c]._closed
              /\ UNCHANGED <<cursors, conn, connection, registry>>
    /\ (Called("close", NoCursor) /\ conn._closed) =>
          /\ last'.exc.kind = "ProgrammingError"
          /\ last'.rpcs = <<>>
          /\ conn'._closed
          /\ UNCHANGED <<cursors, conn, connection, registry>>

C15_CloseOfClosedRaises == [][C15_Step]_vars

\* a closed connection, with a closed cursor, has just been closed once more
C15_Witness ==
    /\ last.name = "close" /\ last.c = NoCursor /\ last.exc = ConnectionClosed
    /\ conn._closed
    /\ \E c \in Cursors : cursors[c].life = "live" /\ cursors[c]._closed

(***************************************************************************)
(* C16.  Every operation invoked on a closed cursor (execute, executemany, *)
(* fetchone, fetchmany, fetchall) or on a closed connection (cursor(),     *)
(* commit(), set_session(), assigning autocommit or readonly) raises       *)
(* ProgrammingError locally and issues no RPC.                             *)
(***************************************************************************)
C16_Step ==
    /\ \A c \in Cursors :
          (last'.c = c /\ last'.name \in CursorOperations /\ cursors[c]._closed) =>
              last'.exc.kind = "ProgrammingError" /\ last'.rpcs = <<>>
    /\ (last'.name \in ConnectionOperations /\ conn._closed) =>
          last'.exc.kind = "ProgrammingError" /\ last'.rpcs = <<>>

C16_ClosedObjectsRefuse == [][C16_Step]_vars

(***************************************************************************)
(* C17.  A cursor holds at most one live statement id at any time:         *)
(* whenever a cursor that holds statement id A adopts a different id B     *)
(* (from createStatement, from prepare, or from a result flagged           *)
(* own_statement), a closeStatement RPC for A is issued before B is        *)
(* stored; adopting the id it already holds issues no closeStatement.      *)
(* In a step: the closeStatement requests of an execute are, in order,     *)
(* those for the ids that were held when a different id was adopted; when  *)
(* such a request fails the id it was for is still held, and otherwise the *)
(* cursor ends up holding the id adopted last.                             *)
(***************************************************************************)
RECURSIVE ReplacedIds(_, _)
ReplacedIds(held, adopted) ==
    IF adopted = <<>> THEN <<>>
    ELSE IF held # NoId /\ held # Head(adopted)
         THEN <<held>> \o ReplacedIds(Head(adopted), Tail(adopted))
         ELSE ReplacedIds(Head(adopted), Tail(adopted))

C17_Step ==
    \A c \in Cursors :
        (last'.c = c /\ last'.name \in {"execute", "execute?"} /\ ~cursors[c]._closed) =>
            LET closes == SelectSeq(last'.rpcs, IsCloseStatement)
                lastcall == last'.rpcs[Len(last'.rpcs)]
            IN  /\ StatementsOf(closes) = ReplacedIds(cursors[c]._id, last'.sets)
                /\ \A i \in 1..Len(closes) : closes[i].connection_id = ConnectionId
                /\ IF last'.exc # NoExc /\ last'.rpcs # <<>> /\ IsCloseStatement(lastcall)
                   THEN cursors'[c]._id = lastcall.statement_id
                   ELSE cursors'[c]._id = IF last'.sets = <<>> THEN cursors[c]._id
                                          ELSE last'.sets[Len(last'.sets)]

C17_OneStatementAtATime == [][C17_Step]_vars

\* an execute with parameters replaced the statement twice: the prepared one took the
\* place of the one held before, and the result's own statement that of the prepared one
C17_Witness ==
    /\ last.name = "execute?" /\ last.exc = NoExc
    /\ Len(SelectSeq(last.rpcs, IsCloseStatement)) = 2
    /\ cursors[last.c]._id = last.sets[2]

(***************************************************************************)
(* C18.  Closing an open cursor that holds a statement id issues exactly   *)
(* one closeStatement RPC for that id, on the cursor's connection id,      *)
(* before the cursor's id, signature, type tables, frame and position are  *)
(* discarded and it is marked closed (if the request fails, nothing has    *)
(* been discarded); closing an open cursor that holds no statement id      *)
(* issues no RPC.                                                          *)
(***************************************************************************)
C18_Step ==
    \A c \in Cursors :
        (Called("close", c) /\ ~cursors[c]._closed) =>
            IF cursors[c]._id # NoId
            THEN /\ last'.rpcs = <<Rpc("closeStatement", ConnectionId, cursors[c]._id, 0, 0)>>
                 /\ last'.exc = NoExc => Discarded(cursors'[c])
                 /\ last'.exc # NoExc => cursors'[c] = cursors[c]
            ELSE /\ last'.rpcs = <<>>
                 /\ last'.exc = NoExc
                 /\ Discarded(cursors'[c])

RECURSIVE OpenStatements(_)
OpenStatements(reg) ==
    IF reg = <<>> THEN <<>>
    ELSE LET cur == cursors[Head(reg)]
         IN  IF cur.life = "live" /\ ~cur._closed /\ cur._id # NoId
             THEN <<cur._id>> \o OpenStatements(Tail(reg))
             ELSE OpenStatements(Tail(reg))

C19_Step ==
    /\ (Called("close", NoCursor) /\ ~conn._closed) =>
          /\ last'.exc \in {NoExc, RpcFault}
          /\ \A c \in Cursors : cursors[c]._closed => cursors'[c] = cursors[c]
          /\ last'.exc = NoExc =>
                /\ conn'._closed
                /\ StatementsOf(SelectSeq(last'.rpcs, IsCloseStatement)) = OpenStatements(registry)
                /\ Len(last'.rpcs) = Len(OpenStatements(registry)) + 1
    /\ conn'._closed => \A c \in Cursors : cursors'[c].life = "live" => cursors'[c]._closed

C19_CloseClosesEveryCursor == [][C19_Step]_vars

\* the connection has been closed with one cursor closed beforehand and the other closed
\* by the cascade
C19_Witness ==
    /\ last.name = "close" /\ last.c = NoCursor /\ last.exc = NoExc
    /\ conn._closed
    /\ Len(SelectSeq(last.rpcs, IsCloseStatement)) = 1
    /\ \A c \in Cursors : cursors[c].life = "live" /\ cursors[c]._closed

(***************************************************************************)
(* C20.  rowcount is reset to -1 at the start of every execute and         *)
(* executemany on an open cursor, before any RPC is issued; it therefore   *)
(* stays -1 if the call fails, and after a successful execute it equals    *)
(* the update count of the first result returned by the server (-1 when    *)
(* the server returned no result).                                         *)
(***************************************************************************)
rowcount(c) == cursors[c]._updatecount

C20_Step ==
    \A c \in Cursors :
        (last'.c = c /\ last'.name \in {"execute", "execute?", "executemany"} /\ ~cursors[c]._closed) =>
            /\ last'.exc # NoExc => rowcount(c)' = -1
            /\ last'.exc = NoExc => rowcount(c)' = hist'[c].count

C20_RowcountResetThenSet == [][C20_Step]_vars

\* an execute failed in the closeStatement for the statement its result replaces, and
\* rowcount is -1
C20_Witness ==
    /\ last.name \in {"execute", "execute?"} /\ last.exc = RpcFault
    /\ IsCloseStatement(last.rpcs[Len(last.rpcs)])
    /\ \E i \in 1..Len(last.rpcs) : last.rpcs[i].op \in {"prepareAndExecute", "execute"}
    /\ rowcount(last.c) = -1

(***************************************************************************)
(* C21.  execute discards both the current frame and the current signature *)
(* (with its decode/encode tables) before doing anything else: after an    *)
(* execute that fails in its RPC or that returns no result, the cursor     *)
(* holds neither the previous statement's frame nor the previous           *)
(* statement's signature or type tables.  Stated for the executions that   *)
(* install no signature of their own: an execute without parameters, or    *)
(* one with parameters whose prepare fails, that ends without a result.    *)
(***************************************************************************)
NoResultExecute(c) ==
    /\ ~cursors[c]._closed
    /\ \/ Called("execute", c)
       \/ Called("execute?", c) /\ Len(last'.rpcs) = 1 /\ last'.exc # NoExc
    /\ hist'[c].count = NoUpdateCount

C21_Step ==
    \A c \in Cursors :
        NoResultExecute(c) =>
            /\ cursors'[c]._frame = NoFrame
            /\ cursors'[c]._signature = NoSignature
            /\ cursors'[c]._column_data_types = <<>>
            /\ cursors'[c]._parameter_data_types = <<>>

C21_ExecuteDiscardsFrameAndSignature == [][C21_Step]_vars

\* the part of C21 that is about the frame alone
C21_FrameStep ==
    \A c \in Cursors : NoResultExecute(c) => cursors'[c]._frame = NoFrame /\ cursors'[c]._pos = NoPos

C21_ExecuteDiscardsFrame == [][C21_FrameStep]_vars

(***************************************************************************)
(* C22.  executemany with m parameter sets issues exactly one prepare RPC  *)
(* followed by exactly m execute RPCs in the order of the parameter sets,  *)
(* each execute being for the prepared statement's id and requesting zero  *)
(* rows; no frame is retained, so a fetchone right after executemany       *)
(* raises ProgrammingError.  Stated for an executemany on an open cursor   *)
(* during which the server fails no request.                               *)
(***************************************************************************)
IsExecute(call) == call.op = "execute"

C22_Step ==
    \A c \in Cursors :
        (Called("executemany", c) /\ ~cursors[c]._closed /\ last'.exc # RpcFault) =>
            /\ last'.exc = NoExc
            /\ Len(last'.rpcs) = 1 + last'.size
            /\ last'.rpcs[1].op = "prepare" /\ last'.rpcs[1].max_row_count = 0
            /\ \A i \in 2..Len(last'.rpcs) :
                  /\ IsExecute(last'.rpcs[i])
                  /\ last'.rpcs[i].statement_id = cursors'[c]._id
                  /\ last'.rpcs[i].max_row_count = 0
            /\ cursors'[c]._frame = NoFrame

C22_ExecutemanyPreparesOnceExecutesEach == [][C22_Step]_vars

\* the part of C22 that is about the frame: after an executemany on an open cursor, no
\* frame is held and a fetchone would raise ProgrammingError
C22_NoFrameStep ==
    \A c \in Cursors :
        (Called("executemany", c) /\ ~cursors[c]._closed) =>
            /\ cursors'[c]._frame = NoFrame
            /\ fetchone(Method(cursors'[c]), 0, 0).exc = NoSelect

C22_ExecutemanyKeepsNoFrame == [][C22_NoFrameStep]_vars

(***************************************************************************)
(* C23.  For every source-type class handled by the cursor's type table    *)
(* (String, BigDecimal, Boolean, Byte, Short, Integer, Long, Float,        *)
(* Double, byte array, java.sql.Date, java.sql.Time, java.sql.Timestamp)   *)
(* and every representative non-null value v of that type, decoding the    *)
(* TypedValue produced by encoding v gives back v; for dates, times        *)
(* (millisecond precision) and timestamps the conversions are exact        *)
(* inverses of each other.  Stated over an execute that binds v and the    *)
(* fetchone that reads the same TypedValue back: the execute encodes and   *)
(* sends v, and the fetchone returns a value equal to v.                   *)
(***************************************************************************)
\* cursor c was given the one parameter v of a known class, non-null, of millisecond precision
Bound(h, cur, v) ==
    /\ h.bound = Parameters(<<v>>)
    /\ v # None
    /\ cur._signature.issignature
    /\ cur._signature.parameters # <<>>
    /\ cur._signature.parameters[1] \in Classes
    /\ v \in ValuesOf(cur._signature.parameters[1])
    /\ v.us % 1000 = 0

\* the values the model binds
BoundValues == UNION {ValuesOf(class_name) : class_name \in Classes}

C23_Step ==
    \A c \in Cursors : \A v \in BoundValues :
        /\ (Called("execute?", c) /\ Bound(hist'[c], cursors'[c], v)) =>
              /\ last'.exc = NoExc
              /\ Len(last'.rpcs) = 2 /\ Len(last'.rpcs[2].parameter_values) = 1
        /\ (Called("fetchone", c) /\ Bound(hist[c], cursors[c], v) /\ cursors[c]._pos = 0) =>
              /\ last'.exc = NoExc
              /\ Len(last'.out) = 1 /\ Len(last'.out[1]) = 1
              /\ PyEq(last'.out[1][1], v)

C23_DecodeOfEncodeIsIdentity == [][C23_Step]_vars

\* the same for every class but Byte and BigDecimal
C23_OtherStep ==
    \A c \in Cursors : \A v \in BoundValues :
        LET others(cur) == cur._signature.parameters[1] \notin {"java.lang.Byte", "java.math.BigDecimal"}
        IN  /\ (Called("execute?", c) /\ Bound(hist'[c], cursors'[c], v) /\ others(cursors'[c])) =>
                  /\ last'.exc = NoExc
                  /\ Len(last'.rpcs) = 2 /\ Len(last'.rpcs[2].parameter_values) = 1
            /\ (Called("fetchone", c) /\ Bound(hist[c], cursors[c], v) /\ cursors[c]._pos = 0 /\ others(cursors[c])) =>
                  /\ last'.exc = NoExc
                  /\ Len(last'.out) = 1 /\ Len(last'.out[1]) = 1
                  /\ PyEq(last'.out[1][1], v)

C23_OtherClassesRoundTrip == [][C23_OtherStep]_vars

(***************************************************************************)
(* C24.  Encoding a None parameter always yields a TypedValue with the     *)
(* null flag set and no value slot populated, whatever the declared class  *)
(* of that parameter, and the registered mutator is not applied to it.     *)
(* Stated over every execute that binds None to a parameter of any class,  *)
(* known or not: the execute request carries exactly the null TypedValue.  *)
(***************************************************************************)
C24_Step ==
    \A c \in Cursors :
        (Called("execute?", c) /\ ~cursors[c]._closed /\ hist'[c].bound = Parameters(<<None>>)) =>
            /\ last'.exc = NoExc
            /\ Len(last'.rpcs) = 2
            /\ IsExecute(last'.rpcs[2])
            /\ last'.rpcs[2].parameter_values = <<[TypedValue EXCEPT !.null = TRUE, !.type = "NULL"]>>
            /\ last'.rpcs[2].parameter_values[1].assigned = {}

C24_NoneEncodesToNull == [][C24_Step]_vars

\* None was bound to a parameter whose class has a mutator, and was sent as the null value
C24_Witness ==
    /\ last.name = "execute?" /\ last.exc = NoExc
    /\ hist[last.c].bound = Parameters(<<None>>)
    /\ cursors[last.c]._parameter_data_types # <<>>
    /\ cursors[last.c]._parameter_data_types[1].mutate_type = "date_to_java_sql_date"
    /\ Len(last.rpcs) = 2
    /\ last.rpcs[2].parameter_values[1].null

(***************************************************************************)
(* C25.  A scalar column value whose null flag is set decodes to None      *)
(* unconditionally, for every column class including classes the type      *)
(* table does not recognise; neither the slot lookup nor the cast function *)
(* is applied to it.  Stated over every fetchone whose row holds one       *)
(* scalar column with the null flag set: it returns [None].                *)
(***************************************************************************)
C25_Step ==
    \A c \in Cursors :
        (/\ Called("fetchone", c)
         /\ cursors[c]._frame.isframe /\ cursors[c]._pos # NoPos
         /\ LET row == cursors[c]._frame.rows[cursors[c]._pos + 1]
            IN  Len(row) = 1 /\ ~row[1].has_array_value /\ row[1].scalar_value.null) =>
            /\ last'.exc = NoExc
            /\ last'.out = <<(<<None>>)>>

C25_NullDecodesToNone == [][C25_Step]_vars

\* a null value in a column of a class the type table does not know was fetched as None
C25_Witness ==
    /\ last.name = "fetchone" /\ last.exc = NoExc
    /\ last.out = <<(<<None>>)>>
    /\ cursors[last.c]._signature.columns = <<UnknownClass>>
    /\ cursors[last.c]._column_data_types[1].cast_type = "None"
    /\ cursors[last.c]._frame.rows[1][1].scalar_value.null

(***************************************************************************)
(* C26.  For each Connection, openConnection with its freshly generated    *)
(* connection id is the first RPC issued, before any connectionSync or     *)
(* statement operation, and every later RPC issued through that connection *)
(* or its cursors (connectionSync, createStatement, prepare,               *)
(* prepareAndExecute, execute, fetch, closeStatement, closeConnection,     *)
(* metadata lookups) carries that same connection id.                      *)
(***************************************************************************)
CarriesConnectionId(op) ==
    /\ op.name = "connect" =>
          /\ op.rpcs # <<>>
          /\ op.rpcs[1].op = "openConnection"
    /\ \A i \in 1..Len(op.rpcs) :
          /\ op.rpcs[i].connection_id = ConnectionId
          /\ op.rpcs[i].op = "openConnection" => op.name = "connect" /\ i = 1

C26_EveryRpcCarriesConnectionId == CarriesConnectionId(last)

\* the same for the operations of the Connection and its cursors, the metadata lookups
\* of the client left aside
C26_ConnectionAndCursorRpcs == last.name \notin MetadataLookups => CarriesConnectionId(last)

(***************************************************************************)
(* C27.  A connection opened without session arguments reports             *)
(* autocommit = False and readonly = False; on an open connection, after   *)
(* assigning autocommit (respectively readonly) the value v, reading that  *)
(* attribute returns v, for any sequence of such assignments.  Stated step *)
(* by step: the first operation finds both attributes False, a completed   *)
(* assignment leaves the attribute at v and the other attribute as it was, *)
(* and no operation other than an assignment or set_session changes what   *)
(* the attributes read.                                                    *)
(***************************************************************************)
\* Connection.autocommit and Connection.readonly (the getters)
autocommit == conn._autocommit
readonly == conn._readonly

C27_Step ==
    /\ last.name = "connect" => (autocommit = FALSE /\ readonly = FALSE)
    /\ (last'.name = "autocommit" /\ ~conn._closed /\ last'.exc = NoExc) =>
          /\ autocommit' = (last'.size = 1)
          /\ readonly' = readonly
    /\ (last'.name = "readonly" /\ ~conn._closed /\ last'.exc = NoExc) =>
          /\ readonly' = (last'.size = 1)
          /\ autocommit' = autocommit
    /\ (last'.name \notin {"autocommit", "readonly", "set_session"} \/ last'.exc # NoExc) =>
          /\ autocommit' = autocommit
          /\ readonly' = readonly

C27_AssignedSessionValueIsRead == [][C27_Step]_vars

\* readonly was assigned True while autocommit read True: the request of the assignment
\* told the server autocommit = False, and both attributes read True
C27_Witness ==
    /\ last.name = "readonly" /\ last.size = 1 /\ last.exc = NoExc
    /\ ~conn._closed
    /\ autocommit = TRUE /\ readonly = TRUE
    /\ session = [auto_commit |-> FALSE, read_only |-> TRUE]

(***************************************************************************)
(* C28.  fetchone on an open cursor that holds no frame (nothing executed  *)
(* yet, or the last execute/executemany left no frame) raises              *)
(* ProgrammingError and issues no RPC; it does not return None.            *)
(***************************************************************************)
C28_Step ==
    \A c \in Cursors :
        (Called("fetchone", c) /\ ~cursors[c]._closed /\ cursors[c]._frame = NoFrame) =>
            /\ last'.exc = NoSelect
            /\ last'.exc.kind = "ProgrammingError"
            /\ last'.rpcs = <<>>
            /\ ~last'.none /\ last'.out = <<>>
            /\ cursors'[c] = cursors[c]

C28_FetchoneWithoutFrameRaises == [][C28_Step]_vars

\* fetchone raised on an open cursor whose last execute created a statement and left no frame
C28_Witness ==
    /\ last.name = "fetchone" /\ last.exc = NoSelect
    /\ ~cursors[last.c]._closed
    /\ cursors[last.c]._id # NoId
    /\ cursors[last.c]._frame = NoFrame

(***************************************************************************)
(* C29.  Every error raised for a server failure carries the original      *)
(* message text of the failure payload verbatim and, whenever the payload  *)
(* contains them, the numeric error code and the SQLSTATE.  Stated for the *)
(* two payloads that hold a code and a state: an ErrorResponse envelope    *)
(* with error_code, sql_state and error_message, and a Jetty error page    *)
(* whose message embeds 'ERROR <code> (<state>): <text> ->' (for which the *)
(* <text> or the whole message counts as the message text).                *)
(***************************************************************************)
CarriesPayload(st) ==
    /\ (Answered /\ response.status # OK /\ response.body = ErrorEnvelope(1109, st, PlainMessage)) =>
          /\ result.type = "raise"
          /\ result.exc.message = PlainMessage
          /\ result.exc.code = 1109
          /\ result.exc.sqlstate = st
    /\ (Answered /\ response.status # OK /\ response.body = JettyPageOf(st)) =>
          /\ result.type = "raise"
          /\ result.exc.message \in {TableNotFound, EmbeddedMessage(Code1205, st)}
          /\ result.exc.code = 1205
          /\ result.exc.sqlstate = st

C29_ErrorCarriesMessageCodeAndState == \A st \in SqlStates : CarriesPayload(st)

\* the same for the states that start with a prefix of SQLSTATE_ERROR_CLASSES
C29_KnownStatesCarryAll == \A st \in KnownStates : CarriesPayload(st)


(***************************************************************************)
(* C30.  Constructing a client from a connection URL resolves a protocol   *)
(* version from the v= query parameter of the URL: a value that is not     *)
(* recognised makes the construction fail at once with a configuration     *)
(* error, so no client is ever constructed from such a URL.                *)
(***************************************************************************)
\* the value of the parameter name in a query string, <<>> when the query is not name=value
QueryValue(query, name) ==
    IF Len(query) = 3 /\ query[1] = name /\ query[2] = "=" THEN <<query[3]>> ELSE <<>>

\* a version no release of the protocol has
C30_Unrecognised == <<"9.9.9">>

C30_Step ==
    (pc = "new" /\ pc' = "idle") => QueryValue(url'.query, "v") # C30_Unrecognised

C30_UnrecognisedVersionFailsConstruction == [][C30_Step]_vars

\* what construction does: it stores a URL with scheme, host and path, opens no connection and raises nothing
C30_UrlStep ==
    (pc = "new" /\ pc' = "idle") =>
        /\ url'.scheme # <<>>
        /\ url'.netloc # <<>>
        /\ url'.path # <<>>
        /\ connection' = NoConnection
        /\ result' = NoResult

C30_ConstructionKeepsTheUrl == [][C30_UrlStep]_vars

(***************************************************************************)
(* C31.  Whenever rownumber is not None it is the zero-based index, in the *)
(* whole result set, of the row the next fetchone returns (frame offset    *)
(* plus position in the frame, which is the number of rows returned since  *)
(* the last execute); it is None exactly when no further row is locally    *)
(* available.  The code raises TypeError whenever a row is available.      *)
(***************************************************************************)
\* a row is locally available to cursor c
RowAvailable(c) == cursors[c]._frame.isframe /\ cursors[c]._pos # NoPos

C31_Step ==
    Called("rownumber", 1) =>
        /\ last'.exc = NoExc
        /\ RowAvailable(1) => last'.out = <<Len(hist[1].got)>>
        /\ ~RowAvailable(1) => last'.none

C31_RownumberIsIndexOfNextRow == [][C31_Step]_vars

\* what holds: the position the cursor keeps is the index of the next row, and reading
\* rownumber raises TypeError with a row available and returns None without one
C31_PositionStep ==
    /\ RowAvailable(1)' => cursors'[1]._frame.offset + cursors'[1]._pos = Len(hist'[1].got)
    /\ Called("rownumber", 1) =>
          /\ RowAvailable(1) => last'.exc = NotSubscriptable
          /\ ~RowAvailable(1) => last'.exc = NoExc /\ last'.none

C31_RownumberRaisesOrIsNone == [][C31_PositionStep]_vars

(***************************************************************************)
(* C32.  A retry caused by an HTTP 503 uses the same backoff and budget    *)
(* rule as a retry caused by a transport fault (sleep e^-budget, budget    *)
(* less one) but leaves the connection handle unchanged: no close and no   *)
(* connect; a retry caused by a transport exception closes and reopens the *)
(* connection before it sleeps.  A retry is a step that stays in the loop  *)
(* of _post_request.                                                       *)
(***************************************************************************)
\* the calls the step adds to the trace
NewCalls == SubSeq(trace', Len(trace) + 1, Len(trace'))

C32_Step ==
    (pc = "post" /\ pc' = "post") =>
        /\ NewCalls # <<>>
        /\ IsPost(NewCalls[1])
        /\ retry_count > 0
        /\ retry_count' = retry_count - 1
        /\ NewCalls[Len(NewCalls)] = SleepCall(ExpNeg(retry_count))
        /\ NewCalls[1].outcome = "response" =>
              /\ NewCalls[1].status = SERVICE_UNAVAILABLE
              /\ Len(NewCalls) = 2
              /\ connection' = connection
              /\ handles' = handles
        /\ NewCalls[1].outcome # "response" =>
              /\ NewCalls[1].outcome = "HTTPException"
              /\ Len(NewCalls) = 4
              /\ NewCalls[2] = CloseCall
              /\ NewCalls[3] = ConnectCall("ok")
              /\ connection' # connection
              /\ connection' # NoConnection
              /\ handles' = handles + 1

C32_UnavailableRetryKeepsConnection == [][C32_Step]_vars

\* a request that was retried after a 503 on the connection it had and, later, after a
\* fault on a new one
C32_Witness ==
    /\ pc = "post"
    /\ Len(trace) = 6
    /\ trace[1].status = SERVICE_UNAVAILABLE
    /\ IsSleep(trace[2])
    /\ trace[3].outcome = "HTTPException"
    /\ IsClose(trace[4])
    /\ IsConnect(trace[5])
    /\ IsSleep(trace[6])
    /\ trace[6].delay > trace[2].delay

(***************************************************************************)
(* C33.  execute with parameters issues a prepare RPC first, adopts the    *)
(* returned statement id and installs the returned signature, encodes the  *)
(* parameters with the table built from that signature (never from an      *)
(* earlier statement's), and only then issues the execute RPC for that     *)
(* statement id; execute without parameters sends no prepare and no        *)
(* execute but a single prepareAndExecute RPC requesting at most itersize   *)
(* rows.  The signature of the answers is that of the prepare response, so  *)
(* it is the signature the cursor holds once the execute RPC was sent.      *)
(***************************************************************************)
OpsOf(calls) == [i \in 1..Len(calls) |-> calls[i].op]
CountOf(calls, op) == Cardinality({i \in 1..Len(calls) : calls[i].op = op})

C33_Step ==
    \A c \in Cursors :
        /\ (Called("execute?", c) /\ ~cursors[c]._closed) =>
              LET calls == last'.rpcs
                  encoded == _transform_parameters(hist'[c].bound.items,
                                                   DataTypes(cursors'[c]._signature.parameters), 1)
              IN  /\ CountOf(calls, "prepareAndExecute") = 0
                  /\ calls # <<>> => calls[1].op = "prepare" /\ calls[1].max_row_count = cursors[c].itersize
                  /\ CountOf(calls, "prepare") <= 1
                  /\ CountOf(calls, "execute") <= 1
                  /\ last'.exc = NoExc => CountOf(calls, "execute") = 1
                  /\ \A i \in 1..Len(calls) :
                        calls[i].op = "execute" =>
                            /\ i > 1
                            /\ \A j \in 2..(i - 1) : IsCloseStatement(calls[j])
                            /\ last'.sets # <<>>
                            /\ calls[i].statement_id = last'.sets[1]
                            /\ calls[i].connection_id = ConnectionId
                            /\ encoded.exc = NoExc
                            /\ calls[i].parameter_values = encoded.value
        /\ (Called("execute", c) /\ ~cursors[c]._closed) =>
              LET calls == last'.rpcs
              IN  /\ CountOf(calls, "prepare") = 0
                  /\ CountOf(calls, "execute") = 0
                  /\ CountOf(calls, "prepareAndExecute") <= 1
                  /\ last'.exc = NoExc => CountOf(calls, "prepareAndExecute") = 1
                  /\ \A i \in 1..Len(calls) :
                        calls[i].op = "prepareAndExecute" =>
                            /\ calls[i].max_row_count = cursors[c].itersize
                            /\ calls[i].statement_id = IF cursors[c]._id # NoId THEN cursors[c]._id
                                                       ELSE last'.sets[1]
                            /\ \A j \in 1..(i - 1) : calls[j].op = "createStatement"

C33_ExecutePreparesThenExecutes == [][C33_Step]_vars

\* a cursor holding a statement with an Integer parameter executed one with a Long
\* parameter: prepare, the close of the statement replaced, execute with a LONG value
C33_Witness ==
    /\ last.name = "execute?" /\ last.exc = NoExc
    /\ OpsOf(last.rpcs) = <<"prepare", "closeStatement", "execute">>
    /\ cursors[1]._signature.parameters = <<"java.lang.Long">>
    /\ last.rpcs[3].parameter_values[1].type = "LONG"
    /\ hist[1].bound = Parameters(<<PyInt(1)>>)

(***************************************************************************)
(* C34.  A failure to open the HTTP connection is raised as InterfaceError *)
(* and is never retried: when the reconnect inside a retry cycle of        *)
(* _post_request fails, the request ends at once with InterfaceError, with *)
(* no sleep and no further POST attempt, whatever budget remains.  Outside *)
(* a request, connect() makes no POST and no sleep, and what it raises is  *)
(* the InterfaceError.                                                     *)
(***************************************************************************)
FailedConnect(c) == IsConnect(c) /\ c.outcome # "ok"

C34_Step ==
    /\ (\E i \in 1..Len(NewCalls) : FailedConnect(NewCalls[i])) =>
          /\ FailedConnect(NewCalls[Len(NewCalls)])
          /\ \A i \in 1..Len(NewCalls) : ~IsSleep(NewCalls[i])
          /\ Len(SelectSeq(NewCalls, IsPost)) = 1
          /\ pc' = "idle"
          /\ result' = Raised(UnableToConnect)
          /\ result'.exc.kind = "InterfaceError"
          /\ retry_count > 0
          /\ retry_count' = retry_count
    /\ (pc = "idle" /\ handles' # handles) =>
          /\ pc' = "idle"
          /\ trace' = trace
          /\ nrequests' = nrequests
          /\ result' # result => result' = Raised(UnableToConnect)
    /\ (trace # <<>> /\ FailedConnect(trace[Len(trace)])) =>
          (trace' = trace \/ (pc = "idle" /\ pc' = "post" /\ trace' = <<>>))

C34_FailedConnectEndsRequest == [][C34_Step]_vars

\* a request that ended on a failed reconnect after one retry, with budget left
C34_Witness ==
    /\ pc = "idle"
    /\ result = Raised(UnableToConnect)
    /\ Len(trace) = 7
    /\ FailedConnect(trace[7])
    /\ IsSleep(trace[4])
    /\ retry_count >= 1

(***************************************************************************)
(* C35.  A failing fetch RPC never loses a row or truncates the result: if *)
(* fetching the next frame fails while fetchone is consuming the last row  *)
(* of a frame that is not done, that row is still delivered, by this call  *)
(* or by a later fetchone (the cursor still stands on it), and a later     *)
(* fetchone never returns None while the last frame received is not done.  *)
(* Stated for frames that hold rows.  The code moves the position off the  *)
(* frame before it fetches, so the row is dropped and the next fetchone    *)
(* returns None.                                                           *)
(***************************************************************************)
\* fetchone on cursor c is about to consume the last row of a frame that is not done
OnLastRowOfOpenFrame(c) ==
    /\ RowAvailable(c)
    /\ cursors[c]._pos + 1 = Len(cursors[c]._frame.rows)
    /\ ~cursors[c]._frame.done

C35_Step ==
    Called("fetchone", 1) =>
        /\ (OnLastRowOfOpenFrame(1) /\ last'.exc # NoExc) =>
              /\ cursors'[1]._frame = cursors[1]._frame
              /\ cursors'[1]._pos = cursors[1]._pos
        /\ (last'.none /\ cursors[1]._frame.rows # <<>>) => cursors[1]._frame.done

C35_FailedFetchLosesNoRow == [][C35_Step]_vars

\* what holds: the failing fetch leaves the frame in place and the position off it, the row
\* is handed to nobody, and the fetchone after it returns None
C35_DropStep ==
    (Called("fetchone", 1) /\ OnLastRowOfOpenFrame(1) /\ last'.exc # NoExc) =>
        /\ cursors'[1]._frame = cursors[1]._frame
        /\ cursors'[1]._pos = NoPos
        /\ last'.out = <<>>
        /\ hist'[1].got = hist[1].got
        /\ fetchone(Method(cursors'[1]), hist'[1].total, 0).none

C35_FailedFetchDropsRow == [][C35_DropStep]_vars

(***************************************************************************)
(* C36.  Assigning one session property leaves the others unchanged: after *)
(* an assignment to autocommit or readonly, or a set_session that names    *)
(* only one of them, the property not named has the value it had before,   *)
(* on the server and in the attributes the connection caches, so that the  *)
(* cached autocommit and readonly always equal the server's.  The code     *)
(* sends the property that is not named as False, flagged as set.          *)
(***************************************************************************)
\* the call told the server something
Told == last'.rpcs # <<>> /\ last'.exc = NoExc

C36_Step ==
    /\ (Called("autocommit", NoCursor) /\ Told) =>
          session'.read_only = session.read_only /\ conn'._readonly = conn._readonly
    /\ (Called("readonly", NoCursor) /\ Told) =>
          session'.auto_commit = session.auto_commit /\ conn'._autocommit = conn._autocommit
    /\ \A value \in SessionArgs \ {"None"}, failat \in 0..1 :
          /\ (ConnectionSetSession(value, "None", failat) /\ Told) => session'.read_only = session.read_only
          /\ (ConnectionSetSession("None", value, failat) /\ Told) => session'.auto_commit = session.auto_commit
    /\ conn'._autocommit = session'.auto_commit
    /\ conn'._readonly = session'.read_only

C36_OtherPropertiesUnchanged == [][C36_Step]_vars

\* what holds: the property assigned is the one the server and the cache hold afterwards,
\* and the server holds False for the property that was not named
C36_ResetStep ==
    /\ (Called("autocommit", NoCursor) /\ Told) =>
          /\ session'.auto_commit = (last'.size = 1)
          /\ conn'._autocommit = session'.auto_commit
          /\ session'.read_only = FALSE
          /\ conn'._readonly = conn._readonly
    /\ (Called("readonly", NoCursor) /\ Told) =>
          /\ session'.read_only = (last'.size = 1)
          /\ conn'._readonly = session'.read_only
          /\ session'.auto_commit = FALSE
          /\ conn'._autocommit = conn._autocommit

C36_UnnamedPropertyIsReset == [][C36_ResetStep]_vars

(***************************************************************************)
(* C37.  No statement leaks and none is closed twice: over any sequence of *)
(* execute (with and without parameters), executemany and close on one     *)
(* cursor in which every RPC succeeds, each statement id the server handed *)
(* to the cursor (by createStatement, by prepare, or in a result flagged    *)
(* own_statement) gets exactly one closeStatement RPC by the time the      *)
(* cursor is closed, and none is issued for an id closed already.  Stated  *)
(* per step, for a server that hands out an id once: the statement held    *)
(* before and those handed over during the call are, each once, either     *)
(* closed by the call or the one held after it, and close holds none.      *)
(* The statement executemany prepares is never adopted, so never closed.   *)
(***************************************************************************)
\* the ids the server handed over during the call are new ones
FreshIds(c) ==
    /\ \A i \in 1..Len(last'.sets) : last'.sets[i] # cursors[c]._id
    /\ \A i, j \in 1..Len(last'.sets) : i # j => last'.sets[i] # last'.sets[j]

\* how many statements the server handed over during the call
Handed == IF last'.name = "executemany" THEN CountOf(last'.rpcs, "prepare") ELSE Len(last'.sets)

Holds(cur) == IF cur._id # NoId THEN 1 ELSE 0

NoLeakStep(c) ==
    LET closes == StatementsOf(SelectSeq(last'.rpcs, IsCloseStatement))
    IN  /\ Len(closes) + Holds(cursors'[c]) = Handed + Holds(cursors[c])
        /\ \A i, j \in 1..Len(closes) : i # j => closes[i] # closes[j]
        /\ \A i \in 1..Len(closes) :
              /\ closes[i] # cursors'[c]._id
              /\ closes[i] = cursors[c]._id \/ \E k \in 1..Len(last'.sets) : closes[i] = last'.sets[k]
        /\ (last'.name = "close" /\ ~cursors[c]._closed) => cursors'[c]._id = NoId

C37_Step ==
    \A c \in Cursors :
        (last'.c = c /\ last'.name \in {"execute", "execute?", "executemany", "close"}
            /\ last'.exc # RpcFault /\ FreshIds(c)) => NoLeakStep(c)

C37_NoStatementLeaksOrClosesTwice == [][C37_Step]_vars

\* what holds: execute and close leak no statement and close none twice
C37_ExecuteStep ==
    \A c \in Cursors :
        (last'.c = c /\ last'.name \in {"execute", "execute?", "close"}
            /\ last'.exc # RpcFault /\ FreshIds(c)) => NoLeakStep(c)

C37_ExecuteAndCloseLeakNone == [][C37_ExecuteStep]_vars

(***************************************************************************)
(* C38.  Connection.close issues its RPCs in a fixed order: the            *)
(* closeStatement of every still-open cursor holding a statement id comes  *)
(* before the closeConnection RPC, closeConnection comes before the HTTP   *)
(* transport is closed, and the connection is marked closed only after all *)
(* of these succeeded; if closeConnection, or a cursor's closeStatement,   *)
(* fails, the connection stays not-closed and the transport stays open, so *)
(* that close can be called again.                                         *)
(***************************************************************************)
IsCloseConnection(call) == call.op = "closeConnection"

C38_Step ==
    (Called("close", NoCursor) /\ ~conn._closed) =>
        LET calls == last'.rpcs
            open == OpenStatements(registry)
        IN  /\ \A i \in 1..Len(calls) :
                  /\ IsCloseConnection(calls[i]) => i = Len(calls) /\ i = Len(open) + 1
                  /\ ~IsCloseConnection(calls[i]) =>
                        /\ IsCloseStatement(calls[i])
                        /\ i <= Len(open)
                        /\ calls[i].statement_id = open[i]
                  /\ calls[i].connection_id = ConnectionId
            /\ connection # NoConnection
            /\ last'.exc = NoExc =>
                  /\ Len(calls) = Len(open) + 1
                  /\ conn'._closed
                  /\ connection' = NoConnection
            /\ last'.exc # NoExc =>
                  /\ ~conn'._closed
                  /\ connection' = connection
                  /\ Len(calls) <= Len(open) + 1
            /\ handles' = handles

C38_CloseInOrderOrNotAtAll == [][C38_Step]_vars

\* the connection closed the statements of both its cursors, and then closeConnection
\* failed: the cursors are closed, the connection and the transport are not
C38_Witness ==
    /\ last.name = "close" /\ last.c = NoCursor /\ last.exc = RpcFault
    /\ Len(last.rpcs) = 3
    /\ IsCloseConnection(last.rpcs[3])
    /\ \A c \in Cursors : cursors[c]._closed
    /\ ~conn._closed
    /\ connection # NoConnection

(***************************************************************************)
(* C39.  Cursor.close is all-or-nothing with respect to a failing          *)
(* closeStatement: if the closeStatement RPC raises, the cursor remains    *)
(* not-closed and still holds its statement id, signature, frame and       *)
(* position unchanged, so a later close issues closeStatement for the same *)
(* id again rather than raising 'already closed'.                          *)
(***************************************************************************)
C39_Step ==
    \A c \in Cursors :
        (Called("close", c) /\ ~cursors[c]._closed /\ last'.exc # NoExc) =>
            LET again == CursorClose(Method(cursors'[c]), 0)
            IN  /\ last'.rpcs = <<Rpc("closeStatement", ConnectionId, cursors[c]._id, 0, 0)>>
                /\ cursors[c]._id # NoId
                /\ cursors'[c] = cursors[c]
                /\ ~cursors'[c]._closed
                /\ again.exc = NoExc
                /\ again.rpcs = last'.rpcs
                /\ Discarded(again.cur)

C39_FailedCloseChangesNothing == [][C39_Step]_vars

\* a cursor standing on the row of a result set whose close failed
C39_Witness ==
    /\ last.name = "close" /\ last.c = 1 /\ last.exc = RpcFault
    /\ cursors[1]._id # NoId
    /\ cursors[1]._signature # NoSignature
    /\ cursors[1]._frame.isframe
    /\ cursors[1]._pos = 0
    /\ ~cursors[1]._closed

(***************************************************************************)
(* C40.  Every row returned by fetchone, fetchmany and fetchall has        *)
(* exactly one element per value of the wire row (hence per column of the  *)
(* signature), in column order: the i-th element of the decoded row is the *)
(* decoding of the i-th wire value, for every mix of null, scalar and      *)
(* array-valued columns.  The code appends nothing for an array value, so  *)
(* the row is shorter and the values after it move to the left.            *)
(***************************************************************************)
\* the decoding of a wire value that is no array
Decoded(column, dtype) ==
    IF column.scalar_value.null THEN None
    ELSE Cast(dtype.cast_type, GetField(column.scalar_value, dtype.field_name).value).value

\* the rows of the frame from the position of cursor c on: those a fetch returns
RowsAhead(c) ==
    IF RowAvailable(c)
    THEN SubSeq(cursors[c]._frame.rows, cursors[c]._pos + 1, Len(cursors[c]._frame.rows))
    ELSE <<>>

C40_Step ==
    (last'.c = 1 /\ last'.name \in {"fetchone", "fetchmany", "fetchall"} /\ last'.exc = NoExc) =>
        \A k \in 1..Len(last'.out) :
            LET wire == RowsAhead(1)[k]
                row == last'.out[k]
            IN  /\ Len(row) = Len(wire)
                /\ Len(row) = Len(cursors[1]._signature.columns)
                /\ \A i \in 1..Len(wire) :
                      ~wire[i].has_array_value => row[i] = Decoded(wire[i], cursors[1]._column_data_types[i])

C40_OneElementPerWireValue == [][C40_Step]_vars

\* the positions of the wire row whose value is no array, in order
RECURSIVE ScalarPositions(_, _)
ScalarPositions(wire, i) ==
    IF i > Len(wire) THEN <<>>
    ELSE IF wire[i].has_array_value THEN ScalarPositions(wire, i + 1)
    ELSE <<i>> \o ScalarPositions(wire, i + 1)

\* what holds: the row returned holds the decodings of the values that are no arrays, in
\* column order; it has one element per wire value when the wire row has no array
C40_ScalarStep ==
    (last'.c = 1 /\ last'.name \in {"fetchone", "fetchmany", "fetchall"} /\ last'.exc = NoExc) =>
        \A k \in 1..Len(last'.out) :
            LET wire == RowsAhead(1)[k]
                row == last'.out[k]
                kept == ScalarPositions(wire, 1)
            IN  /\ Len(row) = Len(kept)
                /\ \A j \in 1..Len(kept) :
                      row[j] = Decoded(wire[kept[j]], cursors[1]._column_data_types[kept[j]])

C40_ArrayValuesAreLeftOut == [][C40_ScalarStep]_vars

=========================================================================
